---- MODULE Spec2Model ----
(***************************************************************************)
(* The device matching engine of src/modules/bestMatch/matcher_engine.py   *)
(* as a state machine: the two process-wide LRU caches, the global alias   *)
(* index, and process() run on successive request batches.                 *)
(*                                                                         *)
(* Text is a sequence of one-character strings.  A CJK ideograph is the    *)
(* token "Uxxxx" of its code point.  Similarity scores are integers in     *)
(* thousandths (1000 = 1.0), weights in hundredths, composite scores and   *)
(* the disambiguation gap in units of 1e-5 (weight * score).               *)
(***************************************************************************)
EXTENDS Integers, Sequences, FiniteSets, TLC

VARIABLES
  lru,          \* an LRUCache instance exercised directly by get and set
  normCache,    \* _normalize_cache
  tfidfCache,   \* _tfidf_cache
  aliasIndices, \* _alias_indices
  payload,      \* the payload of the last process() call
  out,          \* what the last process() call returned (or that it raised)
  scoredLog,    \* per request of the last batch, what compute_scores_for_device returned per candidate
  nbatches,     \* number of process() calls so far
  call,         \* the last direct normalize / field_similarity call and its results
  loop          \* main's daemon loop: its state, the last line read, and what was printed for it

vars == <<lru, normCache, tfidfCache, aliasIndices, payload, out, scoredLog, nbatches, call, loop>>

(***************************************************************************)
(* Bounds of the model.                                                    *)
(***************************************************************************)
MaxCap == 3       \* largest maxsize of the directly exercised LRUCache
MaxKey == 4       \* keys 1..MaxKey are used on the directly exercised LRUCache
MaxBatches == 2   \* process() calls in one run of the engine
MaxCalls == 3     \* direct normalize / field_similarity calls in one run
MaxHouse == 60    \* entities of the largest list given to filter_candidates
LightCount == 52  \* lights at the head of that list (more than the room limit)
KitchenCount == 35 \* kitchen entities at its head (more than the floor limit)
HouseSizes == {0, 4, MaxHouse - 20, MaxHouse}

(***************************************************************************)
(* Characters and Python scalars.                                          *)
(***************************************************************************)
UpperSeq == <<"A","B","C","D","E","F","G","H","I","J","K","L","M",
              "N","O","P","Q","R","S","T","U","V","W","X","Y","Z">>
LowerSeq == <<"a","b","c","d","e","f","g","h","i","j","k","l","m",
              "n","o","p","q","r","s","t","u","v","w","x","y","z">>
LowerLetters == {LowerSeq[i] : i \in 1..Len(LowerSeq)}
Digits == {"0","1","2","3","4","5","6","7","8","9"}
\* the ideographs (all within U+4E00..U+9FA5) that occur in the model's texts
CJKChars == {"U4EBA","U4F20","U4F53","U50CF","U5149","U5173","U5177","U51B7","U52A8",
             "U5360","U5668","U5934","U5E18","U5EA6","U5EA7","U5F00","U611F","U6247",
             "U63A7","U63D2","U6444","U660E","U6C14","U6E29","U6E7F","U706F","U7167",
             "U7528","U76D1","U78C1","U7A7A","U7A97","U8C03","U8FD0","U9501","U95E8",
             "U98CE","U5BA2","U5385"}
SpaceChars == {" ", "\t"}
DashChars == {"_", "-"}
KeepChars == LowerLetters \cup Digits \cup CJKChars

\* a JSON number or boolean is a sequence headed by its type tag, followed by
\* the characters of str(value)
TypeTags == {"#int", "#float", "#bool"}
PyInt1 == <<"#int", "1">>
PyFloat1 == <<"#float", "1", ".", "0">>
PyTrue == <<"#bool", "T", "r", "u", "e">>

IsStr(v) == v = <<>> \/ Head(v) \notin TypeTags

\* str(value)
PyStr(v) == IF IsStr(v) THEN v ELSE Tail(v)

\* the numeric value of a JSON number or boolean, as its decimal digits
NumValue(v) ==
  CASE Head(v) = "#bool" -> IF Tail(v) = <<"T","r","u","e">> THEN <<"1">> ELSE <<"0">>
    [] Head(v) = "#int" -> Tail(v)
    [] OTHER -> LET s == Tail(v) IN
                IF Len(s) >= 2 /\ SubSeq(s, Len(s) - 1, Len(s)) = <<".", "0">>
                THEN SubSeq(s, 1, Len(s) - 2) ELSE s

\* the identity of a value as a dict key: Python hashes and compares 1, 1.0
\* and True as the same key, and a str only equals the same str
KeyOf(v) == IF IsStr(v) THEN v ELSE <<"#num">> \o NumValue(v)

\* bool(value)
Truthy(v) == IF IsStr(v) THEN v # <<>> ELSE NumValue(v) # <<"0">>

Lower(c) == IF \E i \in 1..Len(UpperSeq) : UpperSeq[i] = c
            THEN LowerSeq[CHOOSE i \in 1..Len(UpperSeq) : UpperSeq[i] = c]
            ELSE c

LowerStr(s) == [i \in 1..Len(s) |-> Lower(s[i])]

NotSpace(c) == c \notin SpaceChars
NotDash(c)  == c \notin DashChars
IsKeep(c)   == c \in KeepChars

\* a normalisation that drops only the first disallowed character
\* (re.sub with count=1)
RECURSIVE DropFirstNonKeep(_)
DropFirstNonKeep(s) ==
  IF s = <<>> THEN <<>>
  ELSE IF ~IsKeep(Head(s)) THEN Tail(s)
  ELSE <<Head(s)>> \o DropFirstNonKeep(Tail(s))

NormalizeCompute_DropFirst(text) ==
  DropFirstNonKeep(SelectSeq(SelectSeq(LowerStr(PyStr(text)), NotSpace), NotDash))

\* normalize(), the computation of lines 74-78
NormalizeCompute(text) ==
  SelectSeq(SelectSeq(SelectSeq(LowerStr(PyStr(text)), NotSpace), NotDash), IsKeep)

(***************************************************************************)
(* LRUCache: cache is the OrderedDict as a sequence of [k, v], oldest      *)
(* first.                                                                  *)
(***************************************************************************)
LRUCache(maxsize) == [cache |-> <<>>, maxsize |-> maxsize]

LRUIndex(c, key) ==
  IF \E i \in 1..Len(c.cache) : c.cache[i].k = key
  THEN CHOOSE i \in 1..Len(c.cache) : c.cache[i].k = key
  ELSE 0

RemoveAt(s, i) == SubSeq(s, 1, i - 1) \o SubSeq(s, i + 1, Len(s))

MoveToEnd(s, i) == RemoveAt(s, i) \o <<s[i]>>

\* a get that leaves the order of the entries alone (first in, first out)
LRUGet_NoMove(c, key) ==
  LET i == LRUIndex(c, key) IN
  IF i > 0
  THEN [hit |-> TRUE, v |-> c.cache[i].v, c |-> c]
  ELSE [hit |-> FALSE, c |-> c]

\* get: [hit, v, c]; a miss returns None and leaves the cache as it is
LRUGet(c, key) ==
  LET i == LRUIndex(c, key) IN
  IF i > 0
  THEN [hit |-> TRUE, v |-> c.cache[i].v, c |-> [c EXCEPT !.cache = MoveToEnd(@, i)]]
  ELSE [hit |-> FALSE, c |-> c]

\* a set that never evicts
LRUSet_NoEvict(c, key, value) ==
  LET i == LRUIndex(c, key) IN
  [c EXCEPT !.cache = IF i > 0 THEN RemoveAt(@, i) \o <<[k |-> key, v |-> value]>>
                      ELSE Append(@, [k |-> key, v |-> value])]

LRUSet(c, key, value) ==
  LET i     == LRUIndex(c, key)
      moved == IF i > 0 THEN MoveToEnd(c.cache, i) ELSE c.cache
      put   == IF i > 0 THEN [moved EXCEPT ![Len(moved)].v = value]
               ELSE Append(moved, [k |-> key, v |-> value])
  IN [c EXCEPT !.cache = IF Len(put) > c.maxsize THEN Tail(put) ELSE put]

NormalizeCacheMax == 1000
TfidfCacheMax == 500
\* GENERIC_NAMES_RAW, in source order
GENERIC_NAMES_RAW ==
  <<
    <<"l","i","g","h","t">>,
    <<"l","i","g","h","t","s">>,
    <<"l","a","m","p">>,
    <<"l","a","m","p","s">>,
    <<"d","e","n","g">>,
    <<"U706F">>,
    <<"U706F","U5149">>,
    <<"U706F","U5177">>,
    <<"U7167","U660E">>,
    <<"s","w","i","t","c","h">>,
    <<"s","w","i","t","c","h","e","s">>,
    <<"k","a","i","g","u","a","n">>,
    <<"U5F00","U5173">>,
    <<"s","o","c","k","e","t">>,
    <<"s","o","c","k","e","t","s">>,
    <<"c","h","a","z","u","o">>,
    <<"U63D2","U5EA7">>,
    <<"o","u","t","l","e","t">>,
    <<"p","l","u","g">>,
    <<"a","c">>,
    <<"a","i","r","c","o","n">>,
    <<"k","o","n","g","t","i","a","o">>,
    <<"U7A7A","U8C03">>,
    <<"U51B7","U6C14">>,
    <<"c","l","i","m","a","t","e">>,
    <<"f","a","n">>,
    <<"f","a","n","s">>,
    <<"f","e","n","g","s","h","a","n">>,
    <<"U98CE","U6247">>,
    <<"c","o","v","e","r">>,
    <<"c","o","v","e","r","s">>,
    <<"c","h","u","a","n","g","l","i","a","n">>,
    <<"U7A97","U5E18">>,
    <<"c","u","r","t","a","i","n">>,
    <<"b","l","i","n","d">>,
    <<"l","o","c","k">>,
    <<"l","o","c","k","s">>,
    <<"s","u","o">>,
    <<"U9501">>,
    <<"U95E8","U9501">>,
    <<"c","a","m","e","r","a">>,
    <<"c","a","m","e","r","a","s">>,
    <<"c","a","m">>,
    <<"s","h","e","x","i","a","n","g","t","o","u">>,
    <<"U6444","U50CF","U5934">>,
    <<"U76D1","U63A7">>,
    <<"s","e","n","s","o","r">>,
    <<"s","e","n","s","o","r","s">>,
    <<"c","h","u","a","n","g","a","n","q","i">>,
    <<"U4F20","U611F","U5668">>,
    <<"t","e","m","p","e","r","a","t","u","r","e">>,
    <<"t","e","m","p">>,
    <<"w","e","n","d","u">>,
    <<"U6E29","U5EA6">>,
    <<"t","e","m","p","e","r","a","t","u","r","e","s","e","n","s","o","r">>,
    <<"U6E29","U5EA6","U4F20","U611F","U5668">>,
    <<"h","u","m","i","d","i","t","y">>,
    <<"s","h","i","d","u">>,
    <<"U6E7F","U5EA6">>,
    <<"U6E7F","U5EA6","U4F20","U611F","U5668">>,
    <<"m","o","t","i","o","n">>,
    <<"r","e","n","t","i">>,
    <<"U4EBA","U4F53">>,
    <<"m","o","t","i","o","n","s","e","n","s","o","r">>,
    <<"U8FD0","U52A8","U4F20","U611F","U5668">>,
    <<"y","u","n","d","o","n","g","c","h","u","a","n","g","a","n","q","i">>,
    <<"o","c","c","u","p","a","n","c","y">>,
    <<"z","h","a","n","y","o","n","g">>,
    <<"U5360","U7528">>,
    <<"o","c","c","u","p","a","n","c","y","s","e","n","s","o","r">>,
    <<"U5360","U7528","U4F20","U611F","U5668">>,
    <<"z","h","a","n","y","o","n","g","c","h","u","a","n","g","a","n","q","i">>,
    <<"d","o","o","r">>,
    <<"m","e","n","c","h","u","a","n","g">>,
    <<"U95E8","U7A97">>,
    <<"d","o","o","r","s","e","n","s","o","r">>,
    <<"U95E8","U7A97","U4F20","U611F","U5668">>,
    <<"m","e","n","c","i">>,
    <<"U95E8","U78C1">>
  >>

(***************************************************************************)
(* The engine's global state as one record m, threaded through every call: *)
(* nc = _normalize_cache, tc = _tfidf_cache, ai = _alias_indices, and exc  *)
(* the exception being raised ("" when none).  A call returns [v, m]; a    *)
(* call made while an exception propagates does nothing.                   *)
(***************************************************************************)
Ret(v, m) == [v |-> v, m |-> m]

\* Inside a call, each step is a local operator that takes what the step
\* before it returned, so that the globals pass from step to step in the
\* order of the code.

\* normalize(text), lines 65-81
Normalize(m, text) ==
  LET Store(result) == Ret(result, [m EXCEPT !.nc = LRUSet(m.nc, KeyOf(text), result)])
      Lookup(cached) == IF cached.hit THEN Ret(cached.v, [m EXCEPT !.nc = cached.c])
                        ELSE Store(NormalizeCompute(text))
  IN IF m.exc # "" \/ ~Truthy(text) THEN Ret(<<>>, m)
     ELSE Lookup(LRUGet(m.nc, KeyOf(text)))

\* left, then right: the values of both and the globals after right
Concat(left, right) == Ret(left.v \o right.v, right.m)

\* [normalize(x) for x in xs], left to right
RECURSIVE NormalizeAll(_, _)
NormalizeAll(m, xs) ==
  LET Rest(h) == Concat(Ret(<<h.v>>, h.m), NormalizeAll(h.m, Tail(xs)))
  IN IF m.exc # "" \/ xs = <<>> THEN Ret(<<>>, m)
     ELSE Rest(Normalize(m, Head(xs)))

NonEmpty(s) == s # <<>>

GENERIC_NAMES == {NormalizeCompute(GENERIC_NAMES_RAW[i]) : i \in 1..Len(GENERIC_NAMES_RAW)}

\* the globals right after import: the set comprehension of line 103 calls
\* normalize on each generic name in turn, and as the names are distinct
\* strings and fewer than maxsize, each call misses and adds one entry
ImportState ==
  [nc  |-> [cache   |-> [i \in 1..Len(GENERIC_NAMES_RAW) |->
                           [k |-> KeyOf(GENERIC_NAMES_RAW[i]),
                            v |-> NormalizeCompute(GENERIC_NAMES_RAW[i])]],
            maxsize |-> NormalizeCacheMax],
   tc  |-> LRUCache(TfidfCacheMax),
   ai  |-> [built |-> FALSE, rooms |-> {}, floors |-> {}, device_types |-> {}],
   exc |-> ""]

(***************************************************************************)
(* field_similarity                                                        *)
(***************************************************************************)
IsSubstr(a, b) ==
  \E i \in 0..(Len(b) - Len(a)) : SubSeq(b, i + 1, i + Len(a)) = a

\* the character n-grams of lengths 2..4 of a text (TfidfVectorizer with
\* analyzer='char', ngram_range=(2, 4))
Grams(s) == {SubSeq(s, i, i + n - 1) : <<i, n>> \in {p \in (1..Len(s)) \X (2..4) : p[1] + p[2] - 1 <= Len(s)}}

GramCount(g, s) == Cardinality({i \in 1..Len(s) : i + Len(g) - 1 <= Len(s) /\ SubSeq(s, i, i + Len(g) - 1) = g})

RECURSIVE GramDot(_, _, _)
GramDot(G, a, b) ==
  IF G = {} THEN 0
  ELSE LET g == CHOOSE x \in G : TRUE IN
       GramCount(g, a) * GramCount(g, b) + GramDot(G \ {g}, a, b)

\* the least r with r * r >= n
CeilSqrt(n) == CHOOSE r \in 0..n : r * r >= n /\ (r = 0 \/ (r - 1) * (r - 1) < n)

\* cosine of the n-gram count vectors of q and c, in thousandths, rounded
\* down; 0 for a text with no n-gram.  The library's IDF weights are taken
\* as uniform.
Cosine(q, c) ==
  LET nq == GramDot(Grams(q), q, q)
      nc == GramDot(Grams(c), c, c)
  IN IF nq = 0 \/ nc = 0 THEN 0
     ELSE (1000 * GramDot(Grams(q) \cap Grams(c), q, c)) \div CeilSqrt(nq * nc)

RECURSIVE MaxCosine(_, _)
MaxCosine(q, cs) ==
  IF cs = <<>> THEN 0
  ELSE LET a == Cosine(q, Head(cs))
           b == MaxCosine(q, Tail(cs))
       IN IF a >= b THEN a ELSE b

\* the slow path of lines 219-226: fit_transform raises ValueError on an
\* empty vocabulary, which gives 0.0
TfidfSimilarity(q, cands) ==
  IF Grams(q) = {} /\ \A i \in 1..Len(cands) : Grams(cands[i]) = {}
  THEN 0
  ELSE MaxCosine(q, cands)

\* the fast paths in the other order: containment tested before equality
SimilarityCompute_ContainsFirst(q, cands) ==
  IF q = <<>> \/ cands = <<>> THEN 0
  ELSE IF \E i \in 1..Len(cands) : IsSubstr(q, cands[i]) \/ IsSubstr(cands[i], q) THEN 950
  ELSE IF \E i \in 1..Len(cands) : cands[i] = q THEN 1000
  ELSE TfidfSimilarity(q, cands)

\* the rules without the containment fast path
SimilarityCompute_NoContainment(q, cands) ==
  IF q = <<>> \/ cands = <<>> THEN 0
  ELSE IF \E i \in 1..Len(cands) : cands[i] = q THEN 1000
  ELSE TfidfSimilarity(q, cands)

\* lines 208-226 on the normalized query and candidates
SimilarityCompute(q, cands) ==
  IF q = <<>> \/ cands = <<>> THEN 0
  ELSE IF \E i \in 1..Len(cands) : cands[i] = q THEN 1000
  ELSE IF \E i \in 1..Len(cands) : IsSubstr(q, cands[i]) \/ IsSubstr(cands[i], q) THEN 950
  ELSE TfidfSimilarity(q, cands)

\* tuple(sorted(valid_candidates)) identifies the candidates up to their
\* order: the multiset of their keys
CandidatesKey(cands) ==
  LET K == {KeyOf(cands[i]) : i \in 1..Len(cands)} IN
  [k \in K |-> Cardinality({i \in 1..Len(cands) : KeyOf(cands[i]) = k})]

SimilarityKey(query, candidates) == <<KeyOf(query), CandidatesKey(candidates)>>

\* field_similarity(query, candidates), lines 194-229
FieldSimilarity(m, query, candidates) ==
  LET cache_key == SimilarityKey(query, candidates)
      Store(result, m1) == Ret(result, [m1 EXCEPT !.tc = LRUSet(m1.tc, cache_key, result)])
      OfCands(q, cands) == Store(SimilarityCompute(q, SelectSeq(cands.v, NonEmpty)), cands.m)
      OfQuery(q) == OfCands(q.v, NormalizeAll(q.m, SelectSeq(candidates, Truthy)))
      Lookup(cached) == IF cached.hit THEN Ret(cached.v, [m EXCEPT !.tc = cached.c])
                        ELSE OfQuery(Normalize(m, query))
  IN IF m.exc # "" THEN Ret(0, m)
     ELSE IF \E i, j \in 1..Len(candidates) : IsStr(candidates[i]) /\ ~IsStr(candidates[j])
     THEN Ret(0, [m EXCEPT !.exc = "TypeError"])  \* sorted() of a str and a number
     ELSE Lookup(LRUGet(m.tc, cache_key))

(***************************************************************************)
(* Requests and entities.  Both are JSON objects read with the same field  *)
(* extractors; a key that is missing (or null) holds the empty text.       *)
(***************************************************************************)
NoObj ==
  [floor_name_en |-> <<>>, floor_type |-> <<>>, floor_name |-> <<>>, level |-> <<>>,
   room_name_en |-> <<>>, room_type |-> <<>>, room_name |-> <<>>,
   device_name |-> <<>>, friendly_name |-> <<>>,
   device_type |-> <<>>, entity_id |-> <<>>,
   service |-> <<>>, service_data |-> <<>>,
   has_automation |-> FALSE, automation |-> <<>>]

\* str(x).split('.')[0]
RECURSIVE BeforeDot(_)
BeforeDot(s) ==
  IF s = <<>> \/ Head(s) = "." THEN <<>> ELSE <<Head(s)>> \o BeforeDot(Tail(s))

\* the domain of an entity id or of a service, lines 130-131 and 242
DomainOf(x) == IF Truthy(x) THEN BeforeDot(PyStr(x)) ELSE <<>>

\* extract_field_candidates, lines 107-133
extract_field_candidates(obj, field) ==
  CASE field = "floor" ->
         <<obj.floor_name_en, obj.floor_type, obj.floor_name,
           IF Truthy(obj.level) THEN PyStr(obj.level) ELSE <<>>>>
    [] field = "room" -> <<obj.room_name_en, obj.room_type, obj.room_name>>
    [] field = "name" -> <<obj.device_name, obj.friendly_name>>
    [] field = "type" -> <<LowerStr(obj.device_type), DomainOf(obj.entity_id)>>
    [] OTHER -> <<>>

RECURSIVE FirstTruthy(_)
FirstTruthy(cs) ==
  IF cs = <<>> THEN <<>>
  ELSE IF Truthy(Head(cs)) THEN Head(cs) ELSE FirstTruthy(Tail(cs))

\* get_primary_field, lines 136-142
get_primary_field(obj, field) == FirstTruthy(extract_field_candidates(obj, field))

(***************************************************************************)
(* Alias tables and the reverse index.  A table is the dict in iteration   *)
(* order: a sequence of [canonical, aliases]; an index is a set of [k, v]  *)
(* with one entry per key.                                                 *)
(***************************************************************************)
IndexHas(index, key) == \E p \in index : p.k = key
IndexGet(index, key) == (CHOOSE p \in index : p.k = key).v
\* an assignment that leaves a key it finds in the index alone
IndexPut_KeepFirst(index, key, value) ==
  IF IndexHas(index, key) THEN index ELSE index \cup {[k |-> key, v |-> value]}

\* index[key] = value
IndexPut(index, key, value) == {p \in index : p.k # key} \cup {[k |-> key, v |-> value]}

\* the inner loop of lines 153-156
RECURSIVE IndexAliases(_, _, _, _)
IndexAliases(m, index, canonical_norm, aliases) ==
  LET Rest(alias_norm) ==
        IndexAliases(alias_norm.m,
                     IF alias_norm.v # <<>> THEN IndexPut(index, alias_norm.v, canonical_norm)
                     ELSE index,
                     canonical_norm, Tail(aliases))
  IN IF m.exc # "" \/ aliases = <<>> THEN Ret(index, m)
     ELSE Rest(Normalize(m, Head(aliases)))

\* the loop of lines 149-156, adding to a given index
RECURSIVE IndexTable(_, _, _)
IndexTable(m, index, alias_map) ==
  LET Rest(r) == IndexTable(r.m, r.v, Tail(alias_map))
      Canonical(c) ==
        IF c.v = <<>> THEN Rest(Ret(index, c.m))
        ELSE Rest(IndexAliases(c.m, IndexPut(index, c.v, c.v), c.v, Head(alias_map).aliases))
  IN IF m.exc # "" \/ alias_map = <<>> THEN Ret(index, m)
     ELSE Canonical(Normalize(m, Head(alias_map).canonical))

\* build_alias_reverse_index, lines 146-157
build_alias_reverse_index(m, alias_map) == IndexTable(m, {}, alias_map)

\* expand_alias_fast, lines 164-174: the list it returns
expand_alias_fast(m, value, alias_type) ==
  LET Expanded(v_norm) ==
        IF /\ v_norm.m.ai.built
           /\ IndexHas(v_norm.m.ai[alias_type], v_norm.v)
           /\ IndexGet(v_norm.m.ai[alias_type], v_norm.v) # <<>>
        THEN Ret(<<IndexGet(v_norm.m.ai[alias_type], v_norm.v)>>, v_norm.m)
        ELSE Ret(<<v_norm.v>>, v_norm.m)
  IN IF m.exc # "" \/ ~Truthy(value) THEN Ret(<<>>, m)
     ELSE Expanded(Normalize(m, value))

\* ' '.join(parts)
RECURSIVE JoinSpace(_)
JoinSpace(parts) ==
  IF parts = <<>> THEN <<>>
  ELSE IF Len(parts) = 1 THEN Head(parts)
  ELSE Head(parts) \o <<" ">> \o JoinSpace(Tail(parts))

(***************************************************************************)
(* Configuration.  An override that is a dict (weights, thresholds) is     *)
(* [present, keys, val]: whether the key is in the config, which of its    *)
(* entries are given, and their values; a scalar override is [present,     *)
(* val].  Weights are in hundredths and thresholds in thousandths.         *)
(***************************************************************************)
NoDict == [present |-> FALSE, keys |-> {}, val |-> [x \in {"F"} |-> 0]]
NoScalar == [present |-> FALSE, val |-> 0]
NoConfig == [weights |-> NoDict, thresholds |-> NoDict, topK |-> NoScalar, disambiguationGap |-> NoScalar]

DefaultFloorThreshold == 700
DefaultTypeThreshold == 650
DefaultNameThreshold == 800
RoomPassScore == 980
DefaultWeightF == 15
DefaultWeightR == 40
DefaultWeightN == 30
DefaultWeightT == 15
GenericNameScore == 850
NeutralFloorScore == 900
LocationBonus == 40000
Rejected == -100000
DefaultTopK == 100
DefaultGap == 8000
PoolRoomLimit == 50
PoolFloorLimit == 30
SuggestionCount == 3

\* TH.get(key, default) with TH = cfg.get('thresholds', {...}), lines 369-383
Threshold(cfg, key, default) ==
  IF cfg.thresholds.present /\ key \in cfg.thresholds.keys
  THEN cfg.thresholds.val[key] ELSE default

DefaultWeights == [F |-> DefaultWeightF, R |-> DefaultWeightR, N |-> DefaultWeightN, T |-> DefaultWeightT]

(***************************************************************************)
(* build_type_index, lines 487-509.  The index is a set of [k, v] with v   *)
(* the positions (in the entity list) of the entities filed under key k,   *)
(* in the order of their insertion.                                        *)
(***************************************************************************)
TypeIndexGet(index, key) == IF IndexHas(index, key) THEN IndexGet(index, key) ELSE <<>>

\* the body of the loop of lines 490-506 for entities[i]
TypeIndexEntity(m, index, entities, i) ==
  LET e == entities[i]
      UnderType(type_normalized, domain_again, index1) ==
        Ret(IF /\ type_normalized # domain_again.v
               /\ ~\E j \in 1..Len(TypeIndexGet(index1, type_normalized)) :
                     entities[TypeIndexGet(index1, type_normalized)[j]] = e
            THEN IndexPut(index1, type_normalized,
                          Append(TypeIndexGet(index1, type_normalized), i))
            ELSE index1,
            domain_again.m)
      Typed(type_normalized, index1) ==
        IF type_normalized.v = <<>> THEN Ret(index1, type_normalized.m)
        ELSE UnderType(type_normalized.v,
                       Normalize(type_normalized.m, DomainOf(e.entity_id)), index1)
      ByType(m1, index1) ==
        IF ~Truthy(e.device_type) THEN Ret(index1, m1)
        ELSE Typed(Normalize(m1, e.device_type), index1)
      UnderDomain(domain_normalized) ==
        ByType(domain_normalized.m,
               IF domain_normalized.v # <<>>
               THEN IndexPut(index, domain_normalized.v,
                             Append(TypeIndexGet(index, domain_normalized.v), i))
               ELSE index)
  IN UnderDomain(Normalize(m, DomainOf(e.entity_id)))

RECURSIVE TypeIndexRange(_, _, _, _, _)
TypeIndexRange(m, index, entities, lo, hi) ==
  LET mid == (lo + hi) \div 2
      Right(left) == TypeIndexRange(left.m, left.v, entities, mid + 1, hi)
  IN IF m.exc # "" \/ lo > hi THEN Ret(index, m)
     ELSE IF lo = hi THEN TypeIndexEntity(m, index, entities, lo)
     ELSE Right(TypeIndexRange(m, index, entities, lo, mid))

build_type_index(m, entities) == TypeIndexRange(m, {}, entities, 1, Len(entities))

(***************************************************************************)
(* filter_candidates, lines 233-287.  A pool is a sequence of positions    *)
(* in the entity list.                                                     *)
(***************************************************************************)
AllEntities(entities) == [i \in 1..Len(entities) |-> i]

\* [e for e in pool[lo..hi] if q_norm in normalize(get_primary_field(e, field))]
RECURSIVE NarrowRange(_, _, _, _, _, _, _)
NarrowRange(m, entities, pool, field, q_norm, lo, hi) ==
  LET mid == (lo + hi) \div 2
      One(n) == Ret(IF IsSubstr(q_norm, n.v) THEN <<pool[lo]>> ELSE <<>>, n.m)
      Right(left) == Concat(left, NarrowRange(left.m, entities, pool, field, q_norm, mid + 1, hi))
  IN IF m.exc # "" \/ lo > hi THEN Ret(<<>>, m)
     ELSE IF lo = hi THEN One(Normalize(m, get_primary_field(entities[pool[lo]], field)))
     ELSE Right(NarrowRange(m, entities, pool, field, q_norm, lo, mid))

\* a narrowing stage that keeps its result also when it is empty
Narrow_KeepEmpty(r, dev, entities, field, limit) ==
  LET By(q_norm) == NarrowRange(q_norm.m, entities, r.v, field, q_norm.v, 1, Len(r.v))
  IN IF r.m.exc # "" \/ Len(r.v) <= limit \/ ~Truthy(get_primary_field(dev, field)) THEN r
     ELSE By(Normalize(r.m, get_primary_field(dev, field)))

\* one narrowing stage, lines 264-273 and 276-285, on the pool r so far
Narrow(r, dev, entities, field, limit) ==
  LET NarrowedOr(filtered) == Ret(IF filtered.v # <<>> THEN filtered.v ELSE r.v, filtered.m)
      By(q_norm) == NarrowedOr(NarrowRange(q_norm.m, entities, r.v, field, q_norm.v, 1, Len(r.v)))
  IN IF r.m.exc # "" \/ Len(r.v) <= limit \/ ~Truthy(get_primary_field(dev, field)) THEN r
     ELSE By(Normalize(r.m, get_primary_field(dev, field)))

\* lines 239-261
TypePool(m, dev, entities, type_index) ==
  LET type_q == get_primary_field(dev, "type")
      service_domain == DomainOf(dev.service)
      \* type_index.get(key, []) or entities, on what normalize(key) returned
      OfKey(n) == Ret(IF TypeIndexGet(type_index, n.v) = <<>> THEN AllEntities(entities)
                      ELSE TypeIndexGet(type_index, n.v),
                      n.m)
      OfType(n) == IF TypeIndexGet(type_index, n.v) = <<>> /\ Truthy(service_domain)
                   THEN OfKey(Normalize(n.m, service_domain))
                   ELSE OfKey(n)
  IN IF Truthy(type_q) THEN OfType(Normalize(m, type_q))
     ELSE IF Truthy(service_domain) THEN OfKey(Normalize(m, service_domain))
     ELSE Ret(AllEntities(entities), m)

filter_candidates(m, dev, entities, type_index) ==
  Narrow(Narrow(TypePool(m, dev, entities, type_index), dev, entities, "room", PoolRoomLimit),
         dev, entities, "floor", PoolFloorLimit)

(***************************************************************************)
(* compute_scores_for_device, lines 312-408                                *)
(***************************************************************************)
Temperature == <<"t","e","m","p","e","r","a","t","u","r","e">>
Wendu == <<"w","e","n","d","u">>
TemperatureZh == <<"U6E29","U5EA6">>
Humidity == <<"h","u","m","i","d","i","t","y">>
Shidu == <<"s","h","i","d","u">>
HumidityZh == <<"U6E7F","U5EA6">>

\* lines 342-345 on name_norm = normalize(name_q): the type a name implies
\* when none is given; the test '...' in name_q raises TypeError for a name
\* that is not a str
InferType(m, name_q, name_norm, type_q) ==
  IF IsSubstr(Temperature, name_norm) \/ IsSubstr(Wendu, name_norm) THEN Ret(Temperature, m)
  ELSE IF ~IsStr(name_q) THEN Ret(type_q, [m EXCEPT !.exc = "TypeError"])
  ELSE IF IsSubstr(TemperatureZh, name_q) THEN Ret(Temperature, m)
  ELSE IF IsSubstr(Humidity, name_norm) \/ IsSubstr(Shidu, name_norm) \/ IsSubstr(HumidityZh, name_q)
  THEN Ret(Humidity, m)
  ELSE Ret(type_q, m)

\* lines 351-353
RECURSIVE ExpandAll(_, _)
ExpandAll(m, cs) ==
  LET Rest(h) == Concat(h, ExpandAll(h.m, Tail(cs)))
  IN IF m.exc # "" \/ cs = <<>> THEN Ret(<<>>, m)
     ELSE Rest(expand_alias_fast(m, Head(cs), "device_types"))

\* the loop over one room's aliases, lines 304-307: whether one is in n
RECURSIVE AliasInName(_, _, _)
AliasInName(m, aliases, n) ==
  LET In(na) == IF na.v # <<>> /\ IsSubstr(na.v, n) THEN Ret(TRUE, na.m)
                ELSE AliasInName(na.m, Tail(aliases), n)
  IN IF m.exc # "" \/ aliases = <<>> THEN Ret(FALSE, m)
     ELSE In(Normalize(m, Head(aliases)))

\* the loop of lines 301-308
RECURSIVE DetectRoom(_, _, _)
DetectRoom(m, room_aliases, n) ==
  LET room_code == Head(room_aliases).canonical
      ByAlias(found) == IF found.v THEN Ret(room_code, found.m)
                        ELSE DetectRoom(found.m, Tail(room_aliases), n)
      Aliases(m1) == ByAlias(AliasInName(m1, Head(room_aliases).aliases, n))
      \* line 302: normalize(room_code) and normalize(room_code) in n
      CodeIn(code_again) == IF IsSubstr(code_again.v, n) THEN Ret(room_code, code_again.m)
                            ELSE Aliases(code_again.m)
      ByCode(code_norm) == IF code_norm.v # <<>> THEN CodeIn(Normalize(code_norm.m, room_code))
                           ELSE Aliases(code_norm.m)
  IN IF m.exc # "" \/ room_aliases = <<>> THEN Ret(<<>>, m)
     ELSE ByCode(Normalize(m, room_code))

\* detect_location_from_name, lines 297-308
detect_location_from_name(m, name_q, room_aliases) ==
  LET In(n) == IF n.v = <<>> THEN Ret(<<>>, n.m) ELSE DetectRoom(n.m, room_aliases, n.v)
  IN In(Normalize(m, name_q))

Evidence(floor_q, floor_score, room_q, room_score, name_q, name_score, type_q, type_score) ==
  [floor       |-> [text |-> floor_q, score |-> floor_score],
   room        |-> [text |-> room_q, score |-> room_score],
   device_name |-> [text |-> name_q, score |-> name_score],
   device_type |-> [text |-> type_q, score |-> type_score]]

\* the gate with the generic-name exemption of line 383 dropped
GatesPass_NameGateAlways(cfg, floor_q, floor_score, room_q, room_score, name_q, name_score, type_q, type_score, is_generic) ==
  LET floor_pass == IF ~Truthy(floor_q) THEN TRUE
                    ELSE floor_score >= Threshold(cfg, "floor", DefaultFloorThreshold)
      room_pass  == IF Truthy(room_q) THEN room_score >= RoomPassScore ELSE TRUE
      type_pass  == IF ~Truthy(type_q) THEN TRUE
                    ELSE type_score >= Threshold(cfg, "type", DefaultTypeThreshold)
      name_pass  == IF ~Truthy(name_q) THEN TRUE
                    ELSE name_score >= Threshold(cfg, "name", DefaultNameThreshold)
  IN floor_pass /\ room_pass /\ type_pass /\ name_pass

\* the gate of lines 373-385
GatesPass(cfg, floor_q, floor_score, room_q, room_score, name_q, name_score, type_q, type_score, is_generic) ==
  LET floor_pass == IF ~Truthy(floor_q) THEN TRUE
                    ELSE floor_score >= Threshold(cfg, "floor", DefaultFloorThreshold)
      room_pass  == IF Truthy(room_q) THEN room_score >= RoomPassScore ELSE TRUE
      type_pass  == IF ~Truthy(type_q) THEN TRUE
                    ELSE type_score >= Threshold(cfg, "type", DefaultTypeThreshold)
      name_pass  == IF ~Truthy(name_q) \/ is_generic THEN TRUE
                    ELSE name_score >= Threshold(cfg, "name", DefaultNameThreshold)
  IN floor_pass /\ room_pass /\ type_pass /\ name_pass

\* the local variables of compute_scores_for_device after lines 319-331,
\* with m the globals; a variable assigned later starts with what it holds
\* when its assignment is skipped
ScoreFrame(m, dev, e, aliases, cfg) ==
  [m |-> m, dev |-> dev, e |-> e, aliases |-> aliases, cfg |-> cfg,
   floor_q |-> get_primary_field(dev, "floor"),
   room_q  |-> get_primary_field(dev, "room"),
   name_q  |-> get_primary_field(dev, "name"),
   type_q  |-> IF ~Truthy(get_primary_field(dev, "type")) /\ Truthy(dev.service)
               THEN DomainOf(dev.service) ELSE get_primary_field(dev, "type"),
   floor_score |-> 0, room_score |-> 0, name_score |-> 0, name_norm |-> <<>>,
   type_cands |-> <<>>, e_types_norm |-> <<>>, type_score |-> 0,
   extracted_room |-> <<>>, entity_room_norm |-> <<>>,
   extracted_norm |-> <<>>, extracted_norm_again |-> <<>>, generic_norm |-> <<>>]

\* the assignments of lines 334-370 in their order, each named by the
\* variable it assigns
ScoreSteps ==
  <<"floor_score", "room_score", "name_score", "name_norm", "type_q", "type_cands",
    "e_types_norm", "type_score", "extracted_room", "entity_room_norm",
    "extracted_norm", "extracted_norm_again", "generic_norm">>

\* the right-hand side of one assignment, evaluated on the frame f
ScoreStepValue(f, var) ==
  CASE var = "floor_score" ->
         IF Truthy(f.floor_q)
         THEN FieldSimilarity(f.m, f.floor_q, extract_field_candidates(f.e, "floor"))
         ELSE Ret(0, f.m)
    [] var = "room_score" ->
         IF Truthy(f.room_q)
         THEN FieldSimilarity(f.m, f.room_q, extract_field_candidates(f.e, "room"))
         ELSE Ret(0, f.m)
    [] var = "name_score" ->
         IF Truthy(f.name_q)
         THEN FieldSimilarity(f.m, f.name_q, extract_field_candidates(f.e, "name"))
         ELSE Ret(0, f.m)
    [] var = "name_norm" ->
         IF Truthy(f.name_q) /\ ~Truthy(f.type_q) THEN Normalize(f.m, f.name_q)
         ELSE Ret(<<>>, f.m)
    [] var = "type_q" ->
         IF f.m.exc = "" /\ Truthy(f.name_q) /\ ~Truthy(f.type_q)
         THEN InferType(f.m, f.name_q, f.name_norm, f.type_q)
         ELSE Ret(f.type_q, f.m)
    [] var = "type_cands" ->
         IF Truthy(f.type_q) THEN expand_alias_fast(f.m, f.type_q, "device_types")
         ELSE Ret(<<>>, f.m)
    [] var = "e_types_norm" ->
         ExpandAll(f.m, extract_field_candidates(f.e, "type"))
    [] var = "type_score" ->
         FieldSimilarity(f.m,
                         IF f.type_cands # <<>> THEN JoinSpace(f.type_cands) ELSE f.type_q,
                         IF f.e_types_norm # <<>> THEN <<JoinSpace(f.e_types_norm)>>
                         ELSE extract_field_candidates(f.e, "type"))
    [] var = "extracted_room" ->
         IF Truthy(f.name_q) THEN detect_location_from_name(f.m, f.name_q, f.aliases.rooms)
         ELSE Ret(<<>>, f.m)
    [] var = "entity_room_norm" ->
         IF Truthy(f.extracted_room) THEN Normalize(f.m, get_primary_field(f.e, "room"))
         ELSE Ret(<<>>, f.m)
    [] var = "extracted_norm" ->
         IF Truthy(f.extracted_room) THEN Normalize(f.m, f.extracted_room)
         ELSE Ret(<<>>, f.m)
    [] var = "extracted_norm_again" ->
         IF f.extracted_norm # <<>> THEN Normalize(f.m, f.extracted_room)
         ELSE Ret(<<>>, f.m)
    [] var = "generic_norm" ->
         IF Truthy(f.name_q) THEN Normalize(f.m, f.name_q) ELSE Ret(<<>>, f.m)

\* an assignment to a local variable of what a call returned
Assign(f, var, r) == [f EXCEPT ![var] = r.v, !.m = r.m]

RECURSIVE RunScoreSteps(_, _)
RunScoreSteps(f, i) ==
  IF i > Len(ScoreSteps) THEN f
  ELSE RunScoreSteps(Assign(f, ScoreSteps[i], ScoreStepValue(f, ScoreSteps[i])), i + 1)

\* lines 373-408 on the frame after the assignments: [s, ev]
ScoreOfFrame(f) ==
  LET is_generic == Truthy(f.name_q) /\ f.generic_norm \in GENERIC_NAMES
      location_bonus == IF f.extracted_norm # <<>> /\ f.extracted_norm_again = f.entity_room_norm
                        THEN LocationBonus ELSE 0
      ev == Evidence(f.floor_q, f.floor_score, f.room_q, f.room_score,
                     f.name_q, f.name_score, f.type_q, f.type_score)
      W  == IF f.cfg.weights.present THEN f.cfg.weights
            ELSE [present |-> TRUE, keys |-> {"F","R","N","T"}, val |-> DefaultWeights]
      name_score_final   == IF is_generic THEN GenericNameScore ELSE f.name_score
      floor_score_weight == IF Truthy(f.floor_q) THEN f.floor_score ELSE NeutralFloorScore
  IN IF f.m.exc # "" THEN Ret([s |-> Rejected, ev |-> ev], f.m)
     ELSE IF ~GatesPass(f.cfg, f.floor_q, f.floor_score, f.room_q, f.room_score, f.name_q, f.name_score, f.type_q, f.type_score, is_generic)
     THEN Ret([s |-> Rejected, ev |-> ev], f.m)
     ELSE IF {"F","R","N","T"} \ W.keys # {}
     THEN Ret([s |-> Rejected, ev |-> ev], [f.m EXCEPT !.exc = "KeyError"])
     ELSE Ret([s  |-> W.val["F"] * floor_score_weight + W.val["R"] * f.room_score
                      + W.val["N"] * name_score_final + W.val["T"] * f.type_score
                      + location_bonus,
               ev |-> ev], f.m)

\* compute_scores_for_device, lines 312-408: returns [s, ev]
compute_scores_for_device(m, dev, e, aliases, cfg) ==
  ScoreOfFrame(RunScoreSteps(ScoreFrame(m, dev, e, aliases, cfg), 1))


(***************************************************************************)
(* Ranking helpers.                                                        *)
(***************************************************************************)
\* a descending sort that puts equal scores in reverse order
SortByScoreDesc_Unstable(xs) ==
  LET n == Len(xs)
      Pos(i) == 1 + Cardinality({j \in 1..n : \/ xs[j].score > xs[i].score
                                              \/ xs[j].score = xs[i].score /\ j > i})
  IN [p \in 1..n |-> xs[CHOOSE i \in 1..n : Pos(i) = p]]

\* a sort that leaves the list in the order of the pool
SortByScoreDesc_None(xs) == xs

\* list.sort(key=score, reverse=True): descending and stable, so an item
\* comes after the items with a greater score and after the earlier items
\* with an equal score
SortByScoreDesc(xs) ==
  LET n == Len(xs)
      Pos(i) == 1 + Cardinality({j \in 1..n : \/ xs[j].score > xs[i].score
                                              \/ xs[j].score = xs[i].score /\ j < i})
  IN [p \in 1..n |-> xs[CHOOSE i \in 1..n : Pos(i) = p]]

\* xs[:k] for an int k
Take(xs, k) ==
  LET n == IF k >= 0 THEN (IF k < Len(xs) THEN k ELSE Len(xs))
           ELSE (IF Len(xs) + k > 0 THEN Len(xs) + k ELSE 0)
  IN SubSeq(xs, 1, n)

\* round(score, 3) of a score in units of 1e-5, in thousandths.  A score that
\* is a decimal tie (..50) is held by the engine as a float a rounding error
\* away from the tie; the products it sums (0.15 * 0.95 = 0.14249999...) put
\* it below the tie on the payloads of this model, so a tie goes down.
Round3(x) ==
  LET q == x \div 100
      r == x % 100
  IN IF r > 50 THEN q + 1 ELSE q

(***************************************************************************)
(* loose_suggestions, lines 411-484                                        *)
(***************************************************************************)
RECURSIVE LStrip(_)
LStrip(s) == IF s # <<>> /\ Head(s) \in SpaceChars THEN LStrip(Tail(s)) ELSE s

RECURSIVE RStrip(_)
RStrip(s) == IF s # <<>> /\ s[Len(s)] \in SpaceChars THEN RStrip(SubSeq(s, 1, Len(s) - 1)) ELSE s

NotSeparator(c) == c \notin {"_", "-", " "}

\* the local norm of lines 421-424
SuggestionNorm(text) ==
  IF ~Truthy(text) THEN <<>>
  ELSE RStrip(LStrip(SelectSeq(LowerStr(PyStr(text)), NotSeparator)))

Overlaps(a, b) == IsSubstr(a, b) \/ IsSubstr(b, a)

\* lines 431-457: whether the entity stays in the filtered pool
InSuggestionScope(dev, e) ==
  LET request_floor_norm == SuggestionNorm(get_primary_field(dev, "floor"))
      request_room_norm  == SuggestionNorm(get_primary_field(dev, "room"))
      e_floor_norm == SuggestionNorm(get_primary_field(e, "floor"))
      e_room_norm  == SuggestionNorm(get_primary_field(e, "room"))
  IN /\ request_floor_norm # <<>> =>
          (e_floor_norm # <<>> /\ Overlaps(request_floor_norm, e_floor_norm))
     /\ request_room_norm # <<>> =>
          IF e_room_norm = <<>>
          THEN ~(request_floor_norm # <<>> /\ ~Overlaps(request_floor_norm, e_floor_norm))
          ELSE Overlaps(request_room_norm, e_room_norm)

\* lines 466-475 for one entity
SuggestionScore(m, dev, e) ==
  LET Add(sum, weight, s) == Ret(sum.v + weight * s.v, s.m)
      Field(sum, field, weight) ==
        Add(sum, weight,
            FieldSimilarity(sum.m, get_primary_field(dev, field), extract_field_candidates(e, field)))
  IN Field(Field(Field(Field(Ret(0, m), "floor", DefaultWeightF), "room", DefaultWeightR),
                 "name", DefaultWeightN),
           "type", DefaultWeightT)

\* the loop of lines 465-475 over pool[lo..hi]
RECURSIVE SuggestionRange(_, _, _, _, _, _)
SuggestionRange(m, dev, entities, pool, lo, hi) ==
  LET mid == (lo + hi) \div 2
      Item(s) == Ret(<<[idx |-> pool[lo], score |-> s.v]>>, s.m)
      Right(left) == Concat(left, SuggestionRange(left.m, dev, entities, pool, mid + 1, hi))
  IN IF m.exc # "" \/ lo > hi THEN Ret(<<>>, m)
     ELSE IF lo = hi THEN Item(SuggestionScore(m, dev, entities[pool[lo]]))
     ELSE Right(SuggestionRange(m, dev, entities, pool, lo, mid))

\* loose_suggestions, lines 411-484
loose_suggestions(m, dev, entities, pool, cfg) ==
  LET InScope(i) == InSuggestionScope(dev, entities[i])
      Listed(best, m1) ==
        Ret([k \in 1..Len(best) |->
               [entity_id    |-> entities[best[k].idx].entity_id,
                device_name  |-> get_primary_field(entities[best[k].idx], "name"),
                room         |-> get_primary_field(entities[best[k].idx], "room"),
                floor        |-> get_primary_field(entities[best[k].idx], "floor"),
                reason_score |-> Round3(best[k].score)]],
            m1)
      Sorted(items) == Listed(Take(SortByScoreDesc(items.v), SuggestionCount), items.m)
      In(filtered_pool) ==
        IF SuggestionNorm(get_primary_field(dev, "floor")) # <<>> /\ filtered_pool = <<>>
        THEN Ret(<<>>, m)
        ELSE Sorted(SuggestionRange(m, dev, entities, filtered_pool, 1, Len(filtered_pool)))
  IN IF m.exc # "" THEN Ret(<<>>, m)
     ELSE In(SelectSeq(pool, InScope))

(***************************************************************************)
(* process, lines 571-713.  A payload is                                   *)
(*   [keys, data, intention_data, entities_data, intent_devices, entities, *)
(*    user_query, intent, aliases, config]                                 *)
(* where keys are the top-level keys present, data is payload['data'] and  *)
(* intention_data / entities_data are the 'data' objects of the wrapped    *)
(* format; a list inside them is [present, kind, val].  kinds gives the    *)
(* JSON kind of the payload and of the values that validate_input tests    *)
(* with isinstance: "list", "dict" and "str" (here: non-empty ones),       *)
(* "number" (or a boolean), "null", and "empty" for "" and {}.             *)
(***************************************************************************)
NoList == [present |-> FALSE, kind |-> "list", val |-> <<>>]
NoText == [present |-> FALSE, val |-> <<>>]
NoAliases == [rooms |-> <<>>, floors |-> <<>>, device_types |-> <<>>]
NoData == [devices |-> NoList, entities |-> NoList, user_input |-> <<>>, intent |-> NoText]
NoKinds ==
  [payload |-> "dict", data |-> "dict",
   intention_data |-> "dict", intention_data_data |-> "dict",
   entities_data |-> "dict", entities_data_data |-> "dict",
   intent_devices |-> "list", entities |-> "list"]
NoPayload ==
  [keys |-> {}, kinds |-> NoKinds,
   data |-> NoData, intention_data |-> NoData, entities_data |-> NoData,
   intent_devices |-> <<>>, entities |-> <<>>, user_query |-> <<>>, intent |-> NoText,
   aliases |-> NoAliases, config |-> NoConfig]
BestMatch == <<"B","e","s","t"," ","M","a","t","c","h">>

\* d.get('intent', 'Best Match')
IntentOr(intent) == IF intent.present THEN intent.val ELSE BestMatch

\* validate_input, lines 513-567: the error message, "" for a valid payload
validate_input(p) ==
  IF p.kinds.payload # "dict" THEN "Payload must be a dictionary"
  ELSE IF "intention_data" \in p.keys \/ "entities_data" \in p.keys
  THEN IF "intention_data" \in p.keys /\ p.kinds.intention_data # "dict"
       THEN "'intention_data' must be a dictionary"
       ELSE IF "intention_data" \in p.keys /\ p.kinds.intention_data_data # "dict"
       THEN "'intention_data.data' must be a dictionary"
       ELSE IF "intention_data" \notin p.keys \/ ~p.intention_data.devices.present
       THEN "Missing 'intention_data.data.devices' field"
       ELSE IF p.intention_data.devices.kind # "list"
       THEN "'intention_data.data.devices' must be a list"
       ELSE IF "entities_data" \in p.keys /\ p.kinds.entities_data # "dict"
       THEN "'entities_data' must be a dictionary"
       ELSE IF "entities_data" \in p.keys /\ p.kinds.entities_data_data # "dict"
       THEN "'entities_data.data' must be a dictionary"
       ELSE IF "entities_data" \notin p.keys \/ ~p.entities_data.entities.present
       THEN "Missing 'entities_data.data.entities' field"
       ELSE IF p.entities_data.entities.kind # "list"
       THEN "'entities_data.data.entities' must be a list"
       ELSE ""
  ELSE IF "entities" \notin p.keys THEN "Missing 'entities' field"
  ELSE IF p.kinds.entities # "list" THEN "'entities' must be a list"
  ELSE IF "intent_devices" \notin p.keys THEN "Missing 'intent_devices' field"
  ELSE IF p.kinds.intent_devices # "list" THEN "'intent_devices' must be a list"
  ELSE ""

\* lines 585-630: [intent_devices, entities, user_query, intent_name, aliases,
\* cfg], with the kind of what intent_devices holds, and as fault the
\* exception of line 593 when payload['data'] is a number or null
ExtractInputs(p) ==
  IF "success" \in p.keys /\ "data" \in p.keys /\ p.kinds.data # "dict"
  THEN [intent_devices |-> <<>>, devices_kind |-> "list", fault |-> "TypeError",
        entities       |-> <<>>,
        user_query     |-> <<>>,
        intent_name    |-> BestMatch,
        aliases        |-> p.aliases,
        cfg            |-> p.config]
  ELSE IF "success" \in p.keys /\ "data" \in p.keys /\ p.data.devices.present
  THEN [intent_devices |-> p.data.devices.val,
        devices_kind   |-> p.data.devices.kind, fault |-> "",
        entities       |-> <<>>,
        user_query     |-> p.data.user_input,
        intent_name    |-> IntentOr(p.data.intent),
        aliases        |-> p.aliases,
        cfg            |-> p.config]
  ELSE IF "intention_data" \in p.keys \/ "entities_data" \in p.keys
  THEN [intent_devices |-> p.intention_data.devices.val,
        devices_kind   |-> p.intention_data.devices.kind, fault |-> "",
        entities       |-> p.entities_data.entities.val,
        user_query     |-> p.intention_data.user_input,
        intent_name    |-> IntentOr(p.intention_data.intent),
        aliases        |-> p.aliases,
        cfg            |-> p.config]
  ELSE [intent_devices |-> p.intent_devices,
        devices_kind   |-> p.kinds.intent_devices, fault |-> "",
        entities       |-> p.entities,
        user_query     |-> p.user_query,
        intent_name    |-> IntentOr(p.intent),
        aliases        |-> p.aliases,
        cfg            |-> p.config]

NewIndices == [built |-> TRUE, rooms |-> {}, floors |-> {}, device_types |-> {}]

\* an index update that adds the batch's aliases to the indexes in place
RebuildAliasIndices_Merge(m, aliases) ==
  LET Put(indices, alias_type, ix) == Ret([indices EXCEPT ![alias_type] = ix.v], ix.m)
      Merge(r, alias_type) ==
        Put(r.v, alias_type, IndexTable(r.m, r.m.ai[alias_type], aliases[alias_type]))
      Assigned(r) == IF r.m.exc # "" THEN r.m ELSE [r.m EXCEPT !.ai = r.v]
  IN Assigned(Merge(Merge(Merge(Ret(NewIndices, m), "rooms"), "floors"), "device_types"))

\* lines 633-638: the dict is evaluated entry by entry and then assigned,
\* which an exception in its evaluation prevents
RebuildAliasIndices(m, aliases) ==
  LET Put(indices, alias_type, ix) == Ret([indices EXCEPT ![alias_type] = ix.v], ix.m)
      Build(r, alias_type) ==
        Put(r.v, alias_type, build_alias_reverse_index(r.m, aliases[alias_type]))
      Assigned(r) == IF r.m.exc # "" THEN r.m ELSE [r.m EXCEPT !.ai = r.v]
  IN Assigned(Build(Build(Build(Ret(NewIndices, m), "rooms"), "floors"), "device_types"))

\* lines 658-661 over pool[lo..hi]: every candidate with what
\* compute_scores_for_device returned for it
RECURSIVE ScoreRange(_, _, _, _, _, _, _, _)
ScoreRange(m, dev, entities, pool, aliases, cfg, lo, hi) ==
  LET mid == (lo + hi) \div 2
      Item(r) == Ret(<<[idx |-> pool[lo], score |-> r.v.s, ev |-> r.v.ev]>>, r.m)
      Right(left) == Concat(left, ScoreRange(left.m, dev, entities, pool, aliases, cfg, mid + 1, hi))
  IN IF m.exc # "" \/ lo > hi THEN Ret(<<>>, m)
     ELSE IF lo = hi
     THEN Item(compute_scores_for_device(m, dev, entities[pool[lo]], aliases, cfg))
     ELSE Right(ScoreRange(m, dev, entities, pool, aliases, cfg, lo, mid))

\* line 660 without the test of the sentinel
Accepted_Any(c) == TRUE

\* line 660
Accepted(c) == c.score >= 0

\* suggestions whenever fewer than two targets are left
NeedsSuggestions_Few(top) == Len(top) < 2

\* lines 667-669
NeedsSuggestions(top) == top = <<>>

\* the flag with <= in place of <
DisambiguationRequired_Le(top, gap) ==
  Len(top) >= 2 /\ (top[1].score - top[2].score) <= gap

\* lines 703-704
DisambiguationRequired(top, gap) ==
  Len(top) >= 2 /\ (top[1].score - top[2].score) < gap

\* lines 686-693 and 709-710
RequestEcho(dev) ==
  [floor          |-> get_primary_field(dev, "floor"),
   room           |-> get_primary_field(dev, "room"),
   device_name    |-> get_primary_field(dev, "name"),
   device_type    |-> get_primary_field(dev, "type"),
   service        |-> dev.service,
   service_data   |-> dev.service_data,
   has_automation |-> dev.has_automation,
   automation     |-> dev.automation]

\* lines 694-702
Target(e, it) ==
  [entity_id   |-> e.entity_id,
   device_type |-> LowerStr(e.device_type),
   device_name |-> get_primary_field(e, "name"),
   floor       |-> get_primary_field(e, "floor"),
   room        |-> get_primary_field(e, "room"),
   score       |-> Round3(it.score),
   matched     |-> it.ev]

\* lines 675-683
MatchedDevice(dev, e) ==
  [entity_id      |-> e.entity_id,
   service        |-> dev.service,
   service_data   |-> dev.service_data,
   has_automation |-> dev.has_automation,
   automation     |-> dev.automation]

\* lines 671-711 for one request: the action, the directives it adds to
\* matched_devices, and what was scored
ActionOf(dev, entities, pool, candidates, top, suggestions, gap) ==
  Ret([action  |-> [request |-> RequestEcho(dev),
                    targets |-> [k \in 1..Len(top) |-> Target(entities[top[k].idx], top[k])],
                    disambiguation_required |-> DisambiguationRequired(top, gap),
                    warnings |-> <<>>,
                    suggestions_if_empty |-> suggestions.v],
       matched |-> [k \in 1..Len(top) |-> MatchedDevice(dev, entities[top[k].idx])],
       log     |-> [pool |-> pool, candidates |-> candidates, top |-> top,
                    matched |-> [k \in 1..Len(top) |-> entities[top[k].idx].entity_id]]],
      suggestions.m)

\* lines 666-669 on top
SuggestFor(dev, entities, pool, candidates, top, cfg, gap) ==
  ActionOf(dev, entities, pool, candidates.v, top,
           IF NeedsSuggestions(top)
           THEN loose_suggestions(candidates.m, dev, entities, pool, cfg)
           ELSE Ret(<<>>, candidates.m),
           gap)

\* lines 660-664 on the scored candidates
RankCandidates(dev, entities, pool, candidates, cfg, topK, gap) ==
  SuggestFor(dev, entities, pool, candidates,
             Take(SortByScoreDesc(SelectSeq(candidates.v, Accepted)), topK), cfg, gap)

\* lines 657-664 on the pool that filter_candidates returned
ScorePool(pool, dev, entities, aliases, cfg, topK, gap) ==
  RankCandidates(dev, entities, pool.v,
                 ScoreRange(pool.m, dev, entities, pool.v, aliases, cfg, 1, Len(pool.v)),
                 cfg, topK, gap)

\* the body of the loop of lines 653-711 for one request
ProcessDevice(m, dev, entities, type_index, aliases, cfg, topK, gap) ==
  ScorePool(filter_candidates(m, dev, entities, type_index), dev, entities, aliases, cfg, topK, gap)

\* an output that puts the directives of a request before the earlier ones
Collect_Prepend(acc, r) ==
  [actions |-> Append(acc.actions, r.action),
   matched_devices |-> r.matched \o acc.matched_devices,
   log |-> Append(acc.log, r.log)]

\* what one request adds to the output
Collect(acc, r) ==
  [actions |-> Append(acc.actions, r.action),
   matched_devices |-> acc.matched_devices \o r.matched,
   log |-> Append(acc.log, r.log)]

\* a loop that leaves out the requests that matched nothing
RECURSIVE ProcessDevices_SkipEmpty(_, _, _, _, _, _, _, _, _)
ProcessRest_SkipEmpty(r, devs, entities, type_index, aliases, cfg, topK, gap, acc) ==
  ProcessDevices_SkipEmpty(r.m, Tail(devs), entities, type_index, aliases, cfg, topK, gap,
                           IF r.v.action.targets = <<>> /\ r.v.action.suggestions_if_empty = <<>>
                           THEN acc ELSE Collect(acc, r.v))

ProcessDevices_SkipEmpty(m, devs, entities, type_index, aliases, cfg, topK, gap, acc) ==
  IF m.exc # "" \/ devs = <<>> THEN Ret(acc, m)
  ELSE ProcessRest_SkipEmpty(ProcessDevice(m, Head(devs), entities, type_index, aliases, cfg, topK, gap),
                             devs, entities, type_index, aliases, cfg, topK, gap, acc)

\* the loop of lines 653-711: [actions, matched_devices, log]
RECURSIVE ProcessDevices(_, _, _, _, _, _, _, _, _)
ProcessRest(r, devs, entities, type_index, aliases, cfg, topK, gap, acc) ==
  ProcessDevices(r.m, Tail(devs), entities, type_index, aliases, cfg, topK, gap, Collect(acc, r.v))

ProcessDevices(m, devs, entities, type_index, aliases, cfg, topK, gap, acc) ==
  IF m.exc # "" \/ devs = <<>> THEN Ret(acc, m)
  ELSE ProcessRest(ProcessDevice(m, Head(devs), entities, type_index, aliases, cfg, topK, gap),
                   devs, entities, type_index, aliases, cfg, topK, gap, acc)

\* what process returns or raises, on what the loop left
Returned(in, done) ==
  IF done.m.exc # ""
  THEN Ret([out |-> [ok |-> FALSE, error |-> done.m.exc, traceback |-> TRUE], log |-> <<>>],
           [done.m EXCEPT !.exc = ""])
  ELSE Ret([out |-> [ok |-> TRUE,
                     intent |-> in.intent_name,
                     user_input |-> in.user_query,
                     actions |-> done.v.actions,
                     matched_devices |-> done.v.matched_devices],
            log |-> done.v.log],
           done.m)

\* what 'for dev in intent_devices' (line 653) raises when intent_devices is
\* not a list: a number or null cannot be iterated, and the first character
\* of a string or key of a dict has no .get (line 239)
DevicesFault(in) ==
  IF in.devices_kind \in {"number", "null"} THEN "TypeError"
  ELSE IF in.devices_kind \in {"str", "dict"} THEN "AttributeError"
  ELSE ""

\* lines 641-711 on the type index
ProcessTyped(in, type_index) ==
  Returned(in,
           ProcessDevices(IF type_index.m.exc = "" /\ DevicesFault(in) # ""
                          THEN [type_index.m EXCEPT !.exc = DevicesFault(in)]
                          ELSE type_index.m,
                          IF in.devices_kind = "list" THEN in.intent_devices ELSE <<>>,
                          in.entities, type_index.v,
                          in.aliases, in.cfg,
                          IF in.cfg.topK.present THEN in.cfg.topK.val ELSE DefaultTopK,
                          IF in.cfg.disambiguationGap.present THEN in.cfg.disambiguationGap.val
                          ELSE DefaultGap,
                          [actions |-> <<>>, matched_devices |-> <<>>, log |-> <<>>]))

\* lines 633-711 on the inputs extracted from the payload
ProcessInputs(m, in) ==
  ProcessTyped(in, build_type_index(RebuildAliasIndices(m, in.aliases), in.entities))

\* process(payload), lines 571-713: [out, log] and the globals it leaves; out
\* is the dict returned, or the exception raised
process(m, p) ==
  IF ExtractInputs(p).fault # ""
  THEN Ret([out |-> [ok |-> FALSE, error |-> ExtractInputs(p).fault, traceback |-> TRUE],
            log |-> <<>>], m)
  ELSE ProcessInputs(m, ExtractInputs(p))

\* one request line of main, lines 742-756: the line printed for a payload;
\* the error object of an exception in process carries a traceback
Answer(m, p) ==
  IF validate_input(p) # ""
  THEN Ret([out |-> [ok |-> FALSE, error |-> validate_input(p), traceback |-> FALSE],
            log |-> <<>>], m)
  ELSE process(m, p)


(***************************************************************************)

(* The payloads given to process.                                          *)

(***************************************************************************)

HOME ==
  << [NoObj EXCEPT !.entity_id = <<"l","i","g","h","t",".","k","2">>, !.device_type = <<"l","i","g","h","t">>, !.device_name = <<"s","p","o","t">>, !.room_name = <<"k","i","t","c","h","e","n">>, !.level = PyInt1],
     [NoObj EXCEPT !.entity_id = <<"l","i","g","h","t",".","k","1">>, !.device_name = <<"d","e","s","k">>, !.room_name = <<"k","i","t","c","h","e","n">>, !.level = PyInt1],
     [NoObj EXCEPT !.entity_id = <<"s","w","i","t","c","h",".","b","1">>, !.device_type = <<"s","w","i","t","c","h">>, !.device_name = <<"v","e","n","t">>, !.room_name = <<"b","e","d","r","o","o","m">>, !.level = <<"#int", "2">>],
     [NoObj EXCEPT !.entity_id = <<"l","i","g","h","t",".","b","1">>, !.device_type = <<"L","i","g","h","t">>, !.friendly_name = <<"d","e","s","k">>, !.room_name = <<"b","e","d","r","o","o","m">>, !.level = <<"#int", "2">>] >>

HALL ==
  << [NoObj EXCEPT !.entity_id = <<"l","i","g","h","t",".","a">>, !.level = PyInt1] >>

KITCHEN_LIGHTS ==
  << [NoObj EXCEPT !.room_name = <<"k","i","t","c","h","e","n">>, !.device_type = <<"l","i","g","h","t">>] >>

Everyday ==
  [NoPayload EXCEPT
   !.keys = {"intent_devices", "entities", "user_query"},
   !.intent_devices = << [NoObj EXCEPT !.room_name = <<"k","i","t","c","h","e","n">>, !.device_type = <<"l","i","g","h","t">>, !.service = <<"l","i","g","h","t",".","t","u","r","n","_","o","n">>, !.service_data = <<"{","\"","b","r","i","g","h","t","n","e","s","s","\"",":"," ","8","0","}">>, !.has_automation = TRUE, !.automation = <<"{","\"","a","t","\"",":"," ","\"","8","\"","}">>],
     [NoObj EXCEPT !.room_name = <<"k","i","t","c","h","e","n">>, !.device_name = <<"d","e","s","k">>],
     [NoObj EXCEPT !.room_name = <<"k","i","t","c","h","e","n">>, !.device_name = <<"v","e","n","t">>, !.device_type = <<"l","i","g","h","t">>],
     [NoObj EXCEPT !.floor_name = <<"9">>, !.service = <<"s","w","i","t","c","h",".","t","o","g","g","l","e">>],
     [NoObj EXCEPT !.room_name = <<"b","e","d","r","o","o","m">>, !.device_name = <<"l","i","g","h","t">>] >>,
   !.entities = HOME,
   !.user_query = <<"o","n">>]

Aliased ==
  [NoPayload EXCEPT
   !.keys = {"intention_data", "entities_data", "aliases"},
   !.intention_data = [NoData EXCEPT !.devices = [NoList EXCEPT !.present = TRUE, !.val = << [NoObj EXCEPT !.device_type = <<"l","a","m","p">>],
        [NoObj EXCEPT !.device_name = <<"c","o","o","k"," ","d","e","s","k">>] >>],
      !.user_input = <<"c","o","o","k">>,
      !.intent = [present |-> TRUE, val |-> <<"c","t","l">>]],
   !.entities_data = [NoData EXCEPT !.entities = [NoList EXCEPT !.present = TRUE, !.val = << [NoObj EXCEPT !.entity_id = <<"l","i","g","h","t",".","k","2">>, !.device_type = <<"l","i","g","h","t">>, !.device_name = <<"s","p","o","t">>, !.room_name = <<"k","i","t","c","h","e","n">>, !.level = PyInt1],
        [NoObj EXCEPT !.entity_id = <<"l","i","g","h","t",".","k","1">>, !.device_name = <<"d","e","s","k">>, !.room_name = <<"k","i","t","c","h","e","n">>, !.level = PyInt1],
        [NoObj EXCEPT !.entity_id = <<"s","w","i","t","c","h",".","b","1">>, !.device_type = <<"s","w","i","t","c","h">>, !.device_name = <<"v","e","n","t">>, !.room_name = <<"b","e","d","r","o","o","m">>, !.level = <<"#int", "2">>],
        [NoObj EXCEPT !.entity_id = <<"l","i","g","h","t",".","b","1">>, !.device_type = <<"L","i","g","h","t">>, !.friendly_name = <<"d","e","s","k">>, !.room_name = <<"b","e","d","r","o","o","m">>, !.level = <<"#int", "2">>] >>]],
   !.aliases = [rooms |-> << [canonical |-> <<"k","i","t","c","h","e","n">>, aliases |-> << <<"c","o","o","k">> >>] >>,
      floors |-> << [canonical |-> <<"1">>, aliases |-> << <<"f","i","r","s","t">> >>] >>,
      device_types |-> << [canonical |-> <<"l","i","g","h","t">>, aliases |-> << <<"l","a","m","p">>,
     <<"d","e","n","g">> >>] >>]]

TopOne ==
  [NoPayload EXCEPT
   !.keys = {"intent_devices", "entities", "config"},
   !.intent_devices = << [NoObj EXCEPT !.device_type = <<"l","a","m","p">>],
     [NoObj EXCEPT !.room_name = <<"k","i","t","c","h","e","n">>, !.device_type = <<"l","i","g","h","t">>] >>,
   !.entities = HOME,
   !.config = [NoConfig EXCEPT !.topK = [present |-> TRUE, val |-> 1]]]

Close ==
  [NoPayload EXCEPT
   !.keys = {"intent_devices", "entities", "config"},
   !.intent_devices = KITCHEN_LIGHTS,
   !.entities = HOME,
   !.config = [NoConfig EXCEPT !.weights = [present |-> TRUE, keys |-> {"F", "R", "N", "T"}, val |-> [F |-> 0, R |-> -50, N |-> 0, T |-> 140]]]]

Apart ==
  [NoPayload EXCEPT
   !.keys = {"intent_devices", "entities", "config"},
   !.intent_devices = KITCHEN_LIGHTS,
   !.entities = HOME,
   !.config = [NoConfig EXCEPT !.weights = [present |-> TRUE, keys |-> {"F", "R", "N", "T"}, val |-> [F |-> 0, R |-> -110, N |-> 0, T |-> 200]]]]

Tied ==
  [NoPayload EXCEPT
   !.keys = {"intent_devices", "entities", "config"},
   !.intent_devices = << [NoObj EXCEPT !.room_name = <<"b","e","d","r","o","o","m">>, !.device_name = <<"l","i","g","h","t">>] >>,
   !.entities = HOME,
   !.config = [NoConfig EXCEPT !.thresholds = [present |-> TRUE, keys |-> {"floor"}, val |-> [floor |-> 500]], !.disambiguationGap = [present |-> TRUE, val |-> 0]]]

FloorFloat ==
  [NoPayload EXCEPT
   !.keys = {"intent_devices", "entities"},
   !.intent_devices = << [NoObj EXCEPT !.floor_name = PyFloat1, !.device_type = <<"l","i","g","h","t">>] >>,
   !.entities = HALL]

FloorInt ==
  [NoPayload EXCEPT
   !.keys = {"intent_devices", "entities"},
   !.intent_devices = << [NoObj EXCEPT !.floor_name = PyInt1, !.device_type = <<"l","i","g","h","t">>] >>,
   !.entities = HALL]

PartialWeights ==
  [NoPayload EXCEPT
   !.keys = {"intent_devices", "entities", "config"},
   !.intent_devices = << [NoObj EXCEPT !.device_type = <<"l","i","g","h","t">>] >>,
   !.entities = HALL,
   !.config = [NoConfig EXCEPT !.weights = [present |-> TRUE, keys |-> {"F"}, val |-> [F |-> 50]]]]

IntentObject ==
  [NoPayload EXCEPT
   !.keys = {"success", "data", "intent_devices", "entities"},
   !.data = [NoData EXCEPT !.devices = [NoList EXCEPT !.present = TRUE, !.val = << [NoObj EXCEPT !.room_name = <<"k","i","t","c","h","e","n">>, !.device_type = <<"l","i","g","h","t">>] >>],
      !.user_input = <<"o","n">>,
      !.intent = [present |-> TRUE, val |-> <<"c","t","l">>]],
   !.intent_devices = <<>>,
   !.entities = HOME]

NoEntities ==
  [NoPayload EXCEPT
   !.keys = {"intent_devices"},
   !.intent_devices = KITCHEN_LIGHTS]

Sensors ==
  [NoPayload EXCEPT
   !.keys = {"intent_devices", "entities"},
   !.intent_devices = << [NoObj EXCEPT !.device_name = <<"U6E29","U5EA6">>, !.room_name = <<"U5BA2","U5385">>],
     [NoObj EXCEPT !.device_name = <<"s","h","i","d","u">>] >>,
   !.entities = << [NoObj EXCEPT !.entity_id = <<"s","e","n","s","o","r",".","t","1">>, !.device_type = <<"t","e","m","p","e","r","a","t","u","r","e">>, !.device_name = <<"U6E29","U5EA6">>, !.room_name = <<"U5BA2","U5385">>],
     [NoObj EXCEPT !.entity_id = <<"s","e","n","s","o","r",".","h","1">>, !.device_type = <<"h","u","m","i","d","i","t","y">>, !.device_name = <<"U6E7F","U5EA6">>, !.room_name = <<"U5BA2","U5385">>] >>]

NumberName ==
  [NoPayload EXCEPT
   !.keys = {"intent_devices", "entities"},
   !.intent_devices = << [NoObj EXCEPT !.device_name = PyInt1] >>,
   !.entities = HALL]

DashFloor ==
  [NoPayload EXCEPT
   !.keys = {"intent_devices", "entities"},
   !.intent_devices = << [NoObj EXCEPT !.floor_name = <<"2">>, !.device_type = <<"l","i","g","h","t">>],
     [NoObj EXCEPT !.floor_name = <<"-">>, !.device_type = <<"l","i","g","h","t">>],
     [NoObj EXCEPT !.floor_name = <<"1","F">>, !.room_name = <<"a","t","t","i","c">>] >>,
   !.entities = << [NoObj EXCEPT !.entity_id = <<"l","i","g","h","t",".","x">>, !.room_name = <<"d","e","n">>],
     [NoObj EXCEPT !.entity_id = <<"l","i","g","h","t",".","y">>, !.device_name = <<"s","p","o","t">>] >>]

Floors ==
  [NoPayload EXCEPT
   !.keys = {"intent_devices", "entities"},
   !.intent_devices = << [NoObj EXCEPT !.floor_name = <<"1","F">>, !.room_name = <<"a","t","t","i","c">>],
     [NoObj EXCEPT !.floor_name = <<"3">>] >>,
   !.entities = << [NoObj EXCEPT !.entity_id = <<"l","i","g","h","t",".","p">>, !.room_name = <<"d","e","n">>, !.level = PyInt1],
     [NoObj EXCEPT !.entity_id = <<"l","i","g","h","t",".","q">>, !.floor_name = <<"G","-","1","F">>],
     [NoObj EXCEPT !.entity_id = <<"l","i","g","h","t",".","r">>, !.floor_name = <<"2">>],
     [NoObj EXCEPT !.entity_id = <<"l","i","g","h","t",".","s">>] >>]

Scenario ==
  [NoPayload EXCEPT
   !.keys = {"intent_devices", "entities"},
   !.intent_devices = << [NoObj EXCEPT !.room_name = <<"l","i","v","i","n","g","_","r","o","o","m">>, !.device_type = <<"l","i","g","h","t">>],
     [NoObj EXCEPT !.room_name = <<"g","a","r","a","g","e">>, !.device_type = <<"l","i","g","h","t">>] >>,
   !.entities = << [NoObj EXCEPT !.entity_id = <<"l","i","g","h","t",".","l","i","v","i","n","g","_","l","a","m","p">>, !.room_name = <<"l","i","v","i","n","g","_","r","o","o","m">>, !.floor_name = <<"1">>],
     [NoObj EXCEPT !.entity_id = <<"l","i","g","h","t",".","b","e","d","r","o","o","m","_","l","a","m","p">>, !.room_name = <<"b","e","d","r","o","o","m">>, !.floor_name = <<"1">>] >>]

RoomThreshold ==
  [NoPayload EXCEPT
   !.keys = {"intent_devices", "entities", "config"},
   !.intent_devices = << [NoObj EXCEPT !.room_name = <<"k","i","t","c","h","e","n">>],
     [NoObj EXCEPT !.room_name = <<"k","i","t","c","h","e","n">>, !.device_type = <<"l","i","g","h","t">>, !.service = <<"s","w","i","t","c","h",".","t","u","r","n","_","o","n">>] >>,
   !.entities = << [NoObj EXCEPT !.entity_id = <<"l","i","g","h","t",".","k","1">>, !.room_name = <<"k","i","t","c","h","e","n">>],
     [NoObj EXCEPT !.entity_id = <<"s","w","i","t","c","h",".","k","9">>, !.room_name = <<"k","i","t","c","h","e","n","e","t","t","e">>, !.floor_name = <<"1">>] >>,
   !.config = [NoConfig EXCEPT !.thresholds = [present |-> TRUE, keys |-> {"room"}, val |-> [room |-> 500]]]]

Generic ==
  [NoPayload EXCEPT
   !.keys = {"intent_devices", "entities", "config"},
   !.intent_devices = << [NoObj EXCEPT !.device_name = <<"l","a","m","p">>],
     [NoObj EXCEPT !.device_name = <<"K","a","i","-","G","u","a","n">>, !.device_type = <<"s","w","i","t","c","h">>] >>,
   !.entities = HOME,
   !.config = [NoConfig EXCEPT !.thresholds = [present |-> TRUE, keys |-> {"name"}, val |-> [name |-> 1000]]]]

Payloads ==
  {Everyday, Aliased, TopOne, Close, Apart, Tied, FloorFloat, FloorInt, PartialWeights, IntentObject, NoEntities, Sensors, NumberName, DashFloor, Floors, Scenario, RoomThreshold, Generic}

(***************************************************************************)
(* State and specifications.                                               *)
(***************************************************************************)
Globals == [nc |-> normCache, tc |-> tfidfCache, ai |-> aliasIndices, exc |-> ""]

NoCall == [op |-> "none", n |-> 0]

\* the daemon loop before its first line (lines 726-728)
Reading == [state |-> "reading", line |-> "none", printed |-> 0]

InitEngine ==
  /\ normCache = ImportState.nc
  /\ tfidfCache = ImportState.tc
  /\ aliasIndices = ImportState.ai
  /\ payload = NoPayload
  /\ out = [ok |-> FALSE, error |-> "none", traceback |-> FALSE]
  /\ scoredLog = <<>>
  /\ nbatches = 0
  /\ call = NoCall
  /\ loop = Reading

(* ---- process run on one request line after another ---- *)
Process(p) ==
  /\ loop.state = "reading"
  /\ nbatches < MaxBatches
  /\ LET Printed(r) == /\ normCache' = r.m.nc
                       /\ tfidfCache' = r.m.tc
                       /\ aliasIndices' = r.m.ai
                       /\ out' = r.v.out
                       /\ scoredLog' = r.v.log
     IN Printed(Answer(Globals, p))
  /\ payload' = p
  /\ nbatches' = nbatches + 1
  /\ loop' = [state |-> "reading", line |-> "json", printed |-> 1]
  /\ UNCHANGED <<lru, call>>

(* ---- an LRUCache used directly ---- *)
CacheKeys == 1..MaxKey

\* the keys used so far on the cache (a get that hit, or a set), each once,
\* in the order of their last use
UsedKeys == IF call.op = "none" THEN <<>> ELSE call.used

\* key becomes the most recently used one
Touch(used, key) == SelectSeq(used, LAMBDA k : k # key) \o <<key>>

CacheGet(key) ==
  /\ lru' = LRUGet(lru, key).c
  /\ call' = [op |-> "get", n |-> 0, key |-> key, hit |-> LRUGet(lru, key).hit,
              size |-> Len(lru.cache),
              used |-> IF LRUGet(lru, key).hit THEN Touch(UsedKeys, key) ELSE UsedKeys]
  /\ UNCHANGED <<normCache, tfidfCache, aliasIndices, payload, out, scoredLog, nbatches, loop>>

CacheSet(key, value) ==
  /\ lru' = LRUSet(lru, key, value)
  /\ call' = [op |-> "set", n |-> 0, key |-> key, hit |-> LRUIndex(lru, key) > 0,
              size |-> Len(lru.cache), used |-> Touch(UsedKeys, key)]
  /\ UNCHANGED <<normCache, tfidfCache, aliasIndices, payload, out, scoredLog, nbatches, loop>>

(* ---- normalize and field_similarity called directly ---- *)
CallNormalize(text) ==
  /\ call.n < MaxCalls
  /\ LET Called(r) ==
           /\ normCache' = r.m.nc
           /\ call' = [op |-> "normalize", n |-> call.n + 1, arg |-> text, res |-> r.v,
                       cached |-> LRUIndex(normCache, KeyOf(text)) > 0]
     IN Called(Normalize(Globals, text))
  /\ UNCHANGED <<lru, tfidfCache, aliasIndices, payload, out, scoredLog, nbatches, loop>>

CallFieldSimilarity(query, candidates) ==
  /\ call.n < MaxCalls
  /\ LET Called(r) ==
           /\ normCache' = r.m.nc
           /\ tfidfCache' = r.m.tc
           /\ call' = [op |-> "field_similarity", n |-> call.n + 1, arg |-> query,
                       cands |-> candidates, res |-> r.v, raised |-> r.m.exc # "",
                       cached |-> LRUIndex(tfidfCache, SimilarityKey(query, candidates)) > 0]
     IN Called(FieldSimilarity(Globals, query, candidates))
  /\ UNCHANGED <<lru, aliasIndices, payload, out, scoredLog, nbatches, loop>>

\* texts given to normalize directly
NormTexts ==
  { <<>>, <<"a","b">>, <<"A","b">>, <<"a","_","B">>, <<"a"," ","-","b">>,
    <<"a","!","!","b">>, <<"!","_">>, <<"U706F"," ","1">>, <<"U706F","1">>,
    <<"1">>, <<"1","0">>, <<"t","r","u","e">>, PyInt1, PyFloat1, PyTrue }

\* (query, candidates) given to field_similarity directly
SimQueries ==
  { <<"a","b">>, <<"A","_","b">>, <<"!","_">>, <<"-">>, <<"a">>, <<"l","a","m","p">> }

SimCalls ==
  {<<q, <<q>>>> : q \in SimQueries} \cup
  { <<<<"a","b">>, <<<<"a","b","c">>, <<>>>>>>,
    <<<<"a","b">>, <<<<>>, <<"a","b","c">>>>>>,
    <<<<"l","a","m","p">>, <<<<"l","a","m","b">>, <<"c","l","a","m">>>>>>,
    <<<<"a">>, <<<<"b">>>>>>,
    <<<<"a","b">>, <<<<"!","_">>, <<>>>>>>,
    <<<<>>, <<<<"a","b">>>>>>,
    <<PyInt1, <<<<"1">>>>>>,
    <<PyFloat1, <<<<"1">>>>>> }

InitCache ==
  /\ lru \in {LRUCache(n) : n \in 0..MaxCap}
  /\ InitEngine

NextCache ==
  \/ \E k \in CacheKeys : CacheGet(k)
  \/ \E k \in CacheKeys, v \in {"x", "y"} : CacheSet(k, v)

SpecCache == InitCache /\ [][NextCache]_vars

InitCalls ==
  /\ lru = LRUCache(0)
  /\ InitEngine

NextNorm == \E t \in NormTexts : CallNormalize(t)

SpecNorm == InitCalls /\ [][NextNorm]_vars

NextSim == \E c \in SimCalls : CallFieldSimilarity(c[1], c[2])

SpecSim == InitCalls /\ [][NextSim]_vars

(* ---- filter_candidates called on the type index of its entity list ---- *)
\* entity i of a house: the first LightCount are lights, the rest
\* switches; the first KitchenCount are in the kitchen, the rest in the
\* bedroom; odd ones are on level 1, even ones on level 2
DigitChars == <<"0","1","2","3","4","5","6","7","8","9">>

HouseEntity(i) ==
  [NoObj EXCEPT
     !.entity_id = (IF i <= LightCount THEN <<"l","i","g","h","t",".">>
                    ELSE <<"s","w","i","t","c","h",".">>)
                   \o <<DigitChars[(i \div 10) + 1], DigitChars[(i % 10) + 1]>>,
     !.room_name = IF i <= KitchenCount THEN <<"k","i","t","c","h","e","n">>
                   ELSE <<"b","e","d","r","o","o","m">>,
     !.level = IF i % 2 = 1 THEN PyInt1 ELSE <<"#int", "2">>]

House(n) == [i \in 1..n |-> HouseEntity(i)]

\* the requests given to filter_candidates
PoolTypes == { <<>>, <<"l","i","g","h","t">>, <<"S","w","i","t","c","h">>, <<"f","a","n">> }
PoolServices == { <<>>, <<"l","i","g","h","t",".","t","u","r","n","_","o","n">>,
                  <<"v","a","c","u","u","m",".","s","t","a","r","t">> }
PoolRooms == { <<>>, <<"K","i","t","c","h","e","n">>, <<"g","a","r","a","g","e">>,
               <<"k","i","t","c","h","e","n"," ","2">> }
PoolFloors == { <<>>, <<"1">>, <<"7">>, <<"1","F">> }

PoolRequests ==
  { [NoObj EXCEPT !.device_type = t, !.service = s, !.room_name = r, !.floor_name = f] :
      t \in PoolTypes, s \in PoolServices, r \in PoolRooms, f \in PoolFloors }

CallFilterCandidates ==
  /\ call.op = "none"
  /\ LET Called(r) ==
           /\ normCache' = r.m.nc
           /\ call' = [op |-> "filter_candidates", n |-> 1, res |-> r.v]
         Indexed(type_index) ==
           Called(filter_candidates(type_index.m, payload.intent_devices[1],
                                    payload.entities, type_index.v))
     IN Indexed(build_type_index(Globals, payload.entities))
  /\ UNCHANGED <<lru, tfidfCache, aliasIndices, payload, out, scoredLog, nbatches, loop>>

InitPool ==
  /\ lru = LRUCache(0)
  /\ normCache = ImportState.nc
  /\ tfidfCache = ImportState.tc
  /\ aliasIndices = ImportState.ai
  /\ \E dev \in PoolRequests, n \in HouseSizes :
       payload = [NoPayload EXCEPT !.keys = {"intent_devices", "entities"},
                                   !.intent_devices = <<dev>>, !.entities = House(n)]
  /\ out = [ok |-> FALSE, error |-> "none", traceback |-> FALSE]
  /\ scoredLog = <<>>
  /\ nbatches = 0
  /\ call = NoCall
  /\ loop = Reading

NextPool == CallFilterCandidates

SpecPool == InitPool /\ [][NextPool]_vars

(* ---- request lines of every shape given to validate_input ---- *)
JsonKinds == {"dict", "list", "str", "number", "null", "empty"}

\* a device (entity) field of the given kind
FieldOfKind(kind, list) ==
  [present |-> TRUE, kind |-> kind, val |-> IF kind = "list" THEN list ELSE <<>>]

FieldShapes(list) == {NoList} \cup {FieldOfKind(kind, list) : kind \in JsonKinds}

\* {"intent_devices": ..., "entities": ...} with either key absent or of any kind
FlatPayloads ==
  { [NoPayload EXCEPT !.keys = ks,
                      !.kinds.intent_devices = kd, !.kinds.entities = ke,
                      !.intent_devices = IF kd = "list" THEN KITCHEN_LIGHTS ELSE <<>>,
                      !.entities = IF ke = "list" THEN HOME ELSE <<>>] :
      ks \in SUBSET {"intent_devices", "entities"},
      kd \in JsonKinds, ke \in JsonKinds }

\* one side of the wrapped format: the kind of the object, the kind of its
\* 'data' and the list inside it
WrappedSides(list) ==
  {[obj |-> "list", data |-> "dict", field |-> NoList],
   [obj |-> "dict", data |-> "str", field |-> NoList]}
    \cup {[obj |-> "dict", data |-> "dict", field |-> f] :
            f \in {NoList, FieldOfKind("list", list), FieldOfKind("dict", list),
                   FieldOfKind("null", list)}}

WrappedPayloads ==
  { [NoPayload EXCEPT
       !.keys = ks,
       !.kinds.intention_data = IF "intention_data" \in ks THEN i.obj ELSE "dict",
       !.kinds.intention_data_data = IF "intention_data" \in ks THEN i.data ELSE "dict",
       !.intention_data.devices = IF "intention_data" \in ks THEN i.field ELSE NoList,
       !.kinds.entities_data = IF "entities_data" \in ks THEN e.obj ELSE "dict",
       !.kinds.entities_data_data = IF "entities_data" \in ks THEN e.data ELSE "dict",
       !.entities_data.entities = IF "entities_data" \in ks THEN e.field ELSE NoList] :
      ks \in (SUBSET {"intention_data", "entities_data"}) \ {{}},
      i \in WrappedSides(KITCHEN_LIGHTS), e \in WrappedSides(HOME) }

\* the intent object itself ({"success": ..., "data": {"devices": ...}}),
\* alone or next to the two flat lists
IntentPayloads ==
  { [NoPayload EXCEPT !.keys = {"success", "data"} \cup ks,
                      !.kinds.data = kind,
                      !.data.devices = IF kind = "dict" THEN f ELSE NoList,
                      !.entities = IF ks = {} THEN <<>> ELSE HOME] :
      ks \in {{}, {"intent_devices", "entities"}},
      kind \in {"dict", "number", "null"},
      f \in FieldShapes(KITCHEN_LIGHTS) }

\* a request line that is valid JSON and not an object
OtherPayloads ==
  {[NoPayload EXCEPT !.kinds.payload = kind] : kind \in JsonKinds \ {"dict", "empty"}}

ShapedPayloads == FlatPayloads \cup WrappedPayloads \cup IntentPayloads \cup OtherPayloads

InitShapes ==
  /\ lru = LRUCache(0)
  /\ normCache = ImportState.nc
  /\ tfidfCache = ImportState.tc
  /\ aliasIndices = ImportState.ai
  /\ payload \in ShapedPayloads
  /\ out = [ok |-> FALSE, error |-> "none", traceback |-> FALSE]
  /\ scoredLog = <<>>
  /\ nbatches = 0
  /\ call = NoCall
  /\ loop = Reading

\* the line is given to the engine, and given again
NextShapes == Process(payload)

SpecShapes == InitShapes /\ [][NextShapes]_vars

(* ---- the daemon loop of main, lines 726-761, line by line ---- *)
\* a line that is empty after strip(): nothing is printed (lines 732-733)
BlankLine ==
  /\ loop.state = "reading"
  /\ loop' = [state |-> "reading", line |-> "blank", printed |-> 0]
  /\ UNCHANGED <<lru, normCache, tfidfCache, aliasIndices, payload, out, scoredLog, nbatches, call>>

\* json.loads raises JSONDecodeError (lines 734-741)
InvalidJson ==
  /\ loop.state = "reading"
  /\ out' = [ok |-> FALSE, error |-> "Invalid JSON", traceback |-> FALSE]
  /\ loop' = [state |-> "reading", line |-> "invalid", printed |-> 1]
  /\ UNCHANGED <<lru, normCache, tfidfCache, aliasIndices, payload, scoredLog, nbatches, call>>

\* json.loads raises RecursionError on a line nested deeper than the
\* interpreter's recursion limit: line 735 catches JSONDecodeError only and
\* line 760 KeyboardInterrupt only, so the exception leaves main
DeepJson ==
  /\ loop.state = "reading"
  /\ loop' = [state |-> "crashed", line |-> "deep", printed |-> 0]
  /\ UNCHANGED <<lru, normCache, tfidfCache, aliasIndices, payload, out, scoredLog, nbatches, call>>

\* readline returns '' (lines 729-731)
EndOfInput ==
  /\ loop.state = "reading"
  /\ loop' = [state |-> "ended", line |-> "eof", printed |-> 0]
  /\ UNCHANGED <<lru, normCache, tfidfCache, aliasIndices, payload, out, scoredLog, nbatches, call>>

\* KeyboardInterrupt while waiting for a line (lines 760-761)
Interrupt ==
  /\ loop.state = "reading"
  /\ loop' = [state |-> "ended", line |-> "interrupt", printed |-> 0]
  /\ UNCHANGED <<lru, normCache, tfidfCache, aliasIndices, payload, out, scoredLog, nbatches, call>>

DaemonPayloads == {FloorInt, PartialWeights, NoEntities, NumberName, Scenario}

NextDaemon ==
  \/ BlankLine
  \/ InvalidJson
  \/ DeepJson
  \/ EndOfInput
  \/ Interrupt
  \/ \E p \in DaemonPayloads : Process(p)

SpecDaemon == InitCalls /\ [][NextDaemon]_vars

Init == InitCalls

Next == \E p \in Payloads : Process(p)

Spec == Init /\ [][Next]_vars

(* ---- the alias index built for a table, then used to resolve values ---- *)
\* canonical identifiers and alias lists of the tables: "Light" and "lamp"
\* are each other's alias in some tables, "!!" normalizes to the empty string
AliasCanonicals == { <<"l","a","m","p">>, <<"L","i","g","h","t">>, <<"!","!">> }
AliasLists ==
  { <<>>, << <<"b","u","l","b">> >>, << <<"l","i","g","h","t">>, <<"!","!">> >>,
    << <<"B","u","l","b">>, <<"L","a","m","p">> >> }

\* the tables of at most two entries, in every iteration order
AliasTables ==
  {<<>>}
  \cup { <<[canonical |-> c, aliases |-> a]>> : c \in AliasCanonicals, a \in AliasLists }
  \cup { <<[canonical |-> c[1], aliases |-> a[1]], [canonical |-> c[2], aliases |-> a[2]]>> :
           c \in {d \in AliasCanonicals \X AliasCanonicals : d[1] # d[2]},
           a \in AliasLists \X AliasLists }

\* the values given to expand_alias_fast
AliasValues ==
  { <<"b","u","l","b">>, <<"L","A","M","P">>, <<"l","i","g","h","t">>, <<"f","a","n">>,
    <<"!","!">>, <<>> }

\* lines 633-638 for a batch whose device_types table is the given one
BuildAliasIndex ==
  /\ call.op = "none"
  /\ LET Built(m) ==
           /\ normCache' = m.nc
           /\ aliasIndices' = m.ai
           /\ call' = [op |-> "build_alias_reverse_index", n |-> 1]
     IN Built(RebuildAliasIndices(Globals, payload.aliases))
  /\ UNCHANGED <<lru, tfidfCache, payload, out, scoredLog, nbatches, loop>>

\* expand_alias_fast(value, 'device_types') on the index in force
CallExpandAlias(value) ==
  /\ call.op # "none"
  /\ call.n < MaxCalls
  /\ LET Called(r) ==
           /\ normCache' = r.m.nc
           /\ call' = [op |-> "expand_alias_fast", n |-> call.n + 1, arg |-> value,
                       res |-> r.v, raised |-> r.m.exc # ""]
     IN Called(expand_alias_fast(Globals, value, "device_types"))
  /\ UNCHANGED <<lru, tfidfCache, aliasIndices, payload, out, scoredLog, nbatches, loop>>

InitAlias ==
  /\ lru = LRUCache(0)
  /\ normCache = ImportState.nc
  /\ tfidfCache = ImportState.tc
  /\ aliasIndices = ImportState.ai
  /\ \E table \in AliasTables :
       payload = [NoPayload EXCEPT !.keys = {"intent_devices", "entities", "aliases"},
                                   !.aliases = [NoAliases EXCEPT !.device_types = table]]
  /\ out = [ok |-> FALSE, error |-> "none", traceback |-> FALSE]
  /\ scoredLog = <<>>
  /\ nbatches = 0
  /\ call = NoCall
  /\ loop = Reading

NextAlias ==
  \/ BuildAliasIndex
  \/ \E v \in AliasValues : CallExpandAlias(v)

SpecAlias == InitAlias /\ [][NextAlias]_vars

(***************************************************************************)
(* Claims about process.  They read the last request line (payload), what  *)
(* was printed for it (out) and what was scored for it (scoredLog).        *)
(***************************************************************************)
Inputs == ExtractInputs(payload)
Devices == Inputs.intent_devices
Entities == Inputs.entities
Answered == nbatches > 0 /\ out.ok

\* a gate of lines 373-383 that the evidence of a candidate fails
GateFailed(ev, cfg) ==
  \/ Truthy(ev.floor.text) /\ ev.floor.score < Threshold(cfg, "floor", DefaultFloorThreshold)
  \/ Truthy(ev.room.text) /\ ev.room.score < RoomPassScore
  \/ Truthy(ev.device_type.text)
       /\ ev.device_type.score < Threshold(cfg, "type", DefaultTypeThreshold)
  \/ /\ Truthy(ev.device_name.text)
     /\ NormalizeCompute(ev.device_name.text) \notin GENERIC_NAMES
     /\ ev.device_name.score < Threshold(cfg, "name", DefaultNameThreshold)

(***************************************************************************)
(* C1: for every request, a candidate that fails an applicable gate        *)
(* (floor, room, type or non-generic name) gets the composite score -1     *)
(* from compute_scores_for_device and is neither among that request's      *)
(* targets nor among the matched_devices it adds; every score in targets   *)
(* is >= 0.                                                                *)
(***************************************************************************)
C1_RejectedNeverReturned ==
  Answered =>
    \A r \in 1..Len(scoredLog) :
      LET log == scoredLog[r]
          act == out.actions[r]
      IN /\ \A c \in 1..Len(log.candidates) :
              LET cand == log.candidates[c]
                  id   == Entities[cand.idx].entity_id
              IN GateFailed(cand.ev, Inputs.cfg) =>
                   /\ cand.score = Rejected
                   /\ \A k \in 1..Len(act.targets) : act.targets[k].entity_id # id
                   /\ \A k \in 1..Len(log.matched) : log.matched[k] # id
         /\ \A k \in 1..Len(act.targets) : act.targets[k].score >= 0

\* a request for which one candidate was rejected at a gate and another was
\* returned
C1_Witness ==
  /\ Answered
  /\ \E r \in 1..Len(scoredLog) :
       /\ \E c \in 1..Len(scoredLog[r].candidates) :
            /\ GateFailed(scoredLog[r].candidates[c].ev, Inputs.cfg)
            /\ scoredLog[r].candidates[c].score = Rejected
       /\ out.actions[r].targets # <<>>
       /\ scoredLog[r].matched # <<>>

(***************************************************************************)
(* C2: for every request the targets are sorted by non-increasing score,   *)
(* both the scores as computed and the scores rounded to three decimals    *)
(* that are returned.                                                      *)
(***************************************************************************)
C2_TargetsSorted ==
  Answered =>
    \A r \in 1..Len(out.actions) :
      LET targets == out.actions[r].targets
          top     == scoredLog[r].top
      IN /\ Len(targets) = Len(top)
         /\ \A k \in 1..(Len(targets) - 1) :
              /\ targets[k].score >= targets[k + 1].score
              /\ top[k].score >= top[k + 1].score

\* two targets with different rounded scores whose candidates came from the
\* pool in the other order
C2_Witness ==
  /\ Answered
  /\ \E r \in 1..Len(out.actions) :
       LET targets == out.actions[r].targets
           cands   == scoredLog[r].candidates
       IN /\ Len(targets) >= 2
          /\ targets[1].score > targets[2].score
          /\ \E i, j \in 1..Len(cands) :
               i < j /\ cands[i].score >= 0 /\ cands[i].score < cands[j].score

(***************************************************************************)
(* C3: in every ActionResult, suggestions_if_empty is non-empty only if    *)
(* targets is empty.                                                       *)
(***************************************************************************)
C3_SuggestionsOnlyIfNoTargets ==
  Answered =>
    \A r \in 1..Len(out.actions) :
      out.actions[r].suggestions_if_empty # <<>> => out.actions[r].targets = <<>>

\* one batch with a request that got suggestions and no targets, and a
\* request that got a single target and no suggestions
C3_Witness ==
  /\ Answered
  /\ \E r \in 1..Len(out.actions) :
       out.actions[r].suggestions_if_empty # <<>> /\ out.actions[r].targets = <<>>
  /\ \E r \in 1..Len(out.actions) :
       out.actions[r].suggestions_if_empty = <<>> /\ Len(out.actions[r].targets) = 1

(***************************************************************************)
(* C4: process returns exactly one ActionResult per request of the batch,  *)
(* in the order of the requests, and actions[i].request echoes request i,  *)
(* whether it ended with targets, with suggestions or with neither.        *)
(***************************************************************************)
C4_OneActionPerRequest ==
  Answered =>
    /\ Len(out.actions) = Len(Devices)
    /\ \A i \in 1..Len(out.actions) :
         LET req == out.actions[i].request
             dev == Devices[i]
         IN /\ req.floor = get_primary_field(dev, "floor")
            /\ req.room = get_primary_field(dev, "room")
            /\ req.device_name = get_primary_field(dev, "name")
            /\ req.device_type = get_primary_field(dev, "type")
            /\ req.service = dev.service
            /\ req.service_data = dev.service_data
            /\ req.has_automation = dev.has_automation
            /\ req.automation = dev.automation

\* a batch of distinct requests of which one ended with targets, one with
\* suggestions and one with neither
C4_Witness ==
  /\ Answered
  /\ Len(Devices) >= 3
  /\ \A i, j \in 1..Len(Devices) : i # j => Devices[i] # Devices[j]
  /\ \E r \in 1..Len(out.actions) : out.actions[r].targets # <<>>
  /\ \E r \in 1..Len(out.actions) : out.actions[r].suggestions_if_empty # <<>>
  /\ \E r \in 1..Len(out.actions) :
       out.actions[r].targets = <<>> /\ out.actions[r].suggestions_if_empty = <<>>

(***************************************************************************)
(* C5: in a long-lived process, after process has handled a batch the      *)
(* three alias indexes are the ones built from that batch's own alias      *)
(* table, holding no mapping of an earlier batch (also when the batch      *)
(* supplies no aliases), and what the batch returned is what it returns    *)
(* when the indexes hold nothing beforehand.                               *)
(***************************************************************************)
C5_AliasIndexOfThisBatch ==
  (nbatches > 0 /\ validate_input(payload) = "") =>
    /\ aliasIndices.built
    /\ aliasIndices.rooms = build_alias_reverse_index(Globals, Inputs.aliases.rooms).v
    /\ aliasIndices.floors = build_alias_reverse_index(Globals, Inputs.aliases.floors).v
    /\ aliasIndices.device_types =
         build_alias_reverse_index(Globals, Inputs.aliases.device_types).v
    /\ out = process([Globals EXCEPT !.ai = ImportState.ai], payload).v.out

\* a batch without aliases, asking for a type that an earlier batch's table
\* mapped (the alias "cook" of that table is still in the normalization
\* cache), was scored with empty indexes
C5_Witness ==
  /\ nbatches = 2
  /\ Answered
  /\ Inputs.aliases = NoAliases
  /\ LRUIndex(normCache, <<"c","o","o","k">>) > 0
  /\ \E i \in 1..Len(Devices) : Devices[i].device_type = <<"l","a","m","p">>
  /\ aliasIndices = [built |-> TRUE, rooms |-> {}, floors |-> {}, device_types |-> {}]

(***************************************************************************)
(* C6 as stated: the output of process for a payload is a function of the  *)
(* payload alone: whatever batches were handled before, the answer is the  *)
(* one a freshly started engine gives.                                     *)
(***************************************************************************)
C6_OutputOfPayloadAlone ==
  nbatches > 0 => out = Answer(ImportState, payload).v.out

(***************************************************************************)
(* C7: after any sequence of get and set operations an LRUCache never      *)
(* holds more entries than its maxsize; the normalization cache never      *)
(* holds more than 1000 entries and the similarity cache never more than   *)
(* 500.                                                                    *)
(***************************************************************************)
C7_CacheBounded ==
  /\ Len(lru.cache) <= lru.maxsize
  /\ Len(normCache.cache) <= NormalizeCacheMax
  /\ Len(tfidfCache.cache) <= TfidfCacheMax

\* a full cache that has evicted: it holds maxsize entries and not key 1,
\* which is only possible after a set took it over maxsize
C7_Witness ==
  /\ lru.maxsize >= 2
  /\ Len(lru.cache) = lru.maxsize
  /\ \A i \in 1..Len(lru.cache) : lru.cache[i].k > lru.maxsize

(***************************************************************************)
(* C8: normalize is idempotent on strings in every cache state: after      *)
(* normalize(s) returned r, normalize(r) returns r, whether r is answered  *)
(* from the cache or computed.                                             *)
(***************************************************************************)
C8_NormalizeIdempotent ==
  (call.op = "normalize" /\ IsStr(call.arg)) =>
     Normalize(Globals, call.res).v = call.res

\* normalize(s) was answered from the cache, changed s, and its result is
\* itself a cached key
C8_Witness ==
  /\ call.op = "normalize"
  /\ IsStr(call.arg)
  /\ call.cached
  /\ call.res # call.arg
  /\ call.res # <<>>
  /\ LRUIndex(normCache, KeyOf(call.res)) > 0

(***************************************************************************)
(* C9 as stated: for any non-empty query string q, field_similarity(q,     *)
(* [q]) returns exactly 1.0.                                               *)
(***************************************************************************)
C9_ExactMatchAnyNonEmpty ==
  (/\ call.op = "field_similarity"
   /\ IsStr(call.arg)
   /\ call.arg # <<>>
   /\ call.cands = <<call.arg>>) => call.res = 1000

(***************************************************************************)
(* C9 amended: for any query string q whose normalized form is non-empty,  *)
(* field_similarity(q, [q]) returns exactly 1.0, in every cache state.     *)
(***************************************************************************)
C9_ExactMatchNormalizable ==
  (/\ call.op = "field_similarity"
   /\ IsStr(call.arg)
   /\ NormalizeCompute(call.arg) # <<>>
   /\ call.cands = <<call.arg>>) => call.res = 1000

\* field_similarity(q, [q]) answered 1.0 from the cache for a q that is not
\* in normalized form
C9_Witness ==
  /\ call.op = "field_similarity"
  /\ IsStr(call.arg)
  /\ NormalizeCompute(call.arg) # call.arg
  /\ call.cands = <<call.arg>>
  /\ call.cached
  /\ call.res = 1000

(***************************************************************************)
(* C10: disambiguation_required is true exactly when the truncated ranked  *)
(* list has at least two entries and the score of rank 1 minus the score   *)
(* of rank 2 is strictly below the configured gap (default 0.08): 0.90 and *)
(* 0.83 set it, 0.90 and 0.80 do not, nor does a single target or none.    *)
(***************************************************************************)
C10_DisambiguationFlag ==
  Answered =>
    \A r \in 1..Len(out.actions) :
      LET top  == scoredLog[r].top
          gap  == IF Inputs.cfg.disambiguationGap.present
                  THEN Inputs.cfg.disambiguationGap.val ELSE DefaultGap
          flag == out.actions[r].disambiguation_required
      IN /\ flag <=> (Len(top) >= 2 /\ top[1].score - top[2].score < gap)
         /\ Len(out.actions[r].targets) < 2 => ~flag
         /\ (Len(top) >= 2 /\ gap = 8000 /\ top[1].score = 90000 /\ top[2].score = 83000) => flag
         /\ (Len(top) >= 2 /\ gap = 8000 /\ top[1].score = 90000 /\ top[2].score = 80000) => ~flag

\* two targets scored 0.90 and 0.83 under the default gap, flagged
C10_Witness ==
  /\ Answered
  /\ ~Inputs.cfg.disambiguationGap.present
  /\ \E r \in 1..Len(out.actions) :
       /\ Len(scoredLog[r].top) = 2
       /\ scoredLog[r].top[1].score = 90000
       /\ scoredLog[r].top[2].score = 83000
       /\ out.actions[r].disambiguation_required

\* the request names a device by a generic name (line 370)
IsGenericRequest(dev) ==
  /\ Truthy(get_primary_field(dev, "name"))
  /\ NormalizeCompute(get_primary_field(dev, "name")) \in GENERIC_NAMES

\* the evidence of a candidate passes the floor, room and type gates of
\* lines 373-382
OtherGatesPass(ev, cfg) ==
  /\ Truthy(ev.floor.text) => ev.floor.score >= Threshold(cfg, "floor", DefaultFloorThreshold)
  /\ Truthy(ev.room.text) => ev.room.score >= RoomPassScore
  /\ Truthy(ev.device_type.text)
       => ev.device_type.score >= Threshold(cfg, "type", DefaultTypeThreshold)

\* the request carries nothing but its device name
OnlyName(dev) ==
  /\ ~Truthy(get_primary_field(dev, "floor"))
  /\ ~Truthy(get_primary_field(dev, "room"))
  /\ ~Truthy(get_primary_field(dev, "type"))
  /\ ~Truthy(dev.service)

\* every entity of the batch was scored for request r and none was rejected
AllAccepted(r) ==
  /\ Len(scoredLog[r].candidates) = Len(Entities)
  /\ \A c \in 1..Len(scoredLog[r].candidates) : scoredLog[r].candidates[c].score # Rejected

(***************************************************************************)
(* C11 (as stated): a request whose device name normalizes to a generic    *)
(* name is never rejected by the name gate, whatever the name score and    *)
(* the configured name threshold; when the request carries no other        *)
(* constraint, every pool entity is accepted.                              *)
(***************************************************************************)
C11_GenericNameAcceptsAll ==
  Answered =>
    \A r \in 1..Len(scoredLog) :
      IsGenericRequest(Devices[r]) =>
        /\ \A c \in 1..Len(scoredLog[r].candidates) :
             OtherGatesPass(scoredLog[r].candidates[c].ev, Inputs.cfg)
               => scoredLog[r].candidates[c].score # Rejected
        /\ OnlyName(Devices[r]) => AllAccepted(r)

(***************************************************************************)
(* C11 (amended): a request whose device name normalizes to a generic      *)
(* name is never rejected by the name gate, whatever the name score and    *)
(* the configured name threshold; when the request carries no other        *)
(* constraint and lines 336-342 infer no device type from the name, every  *)
(* pool entity is accepted.                                                *)
(***************************************************************************)
C11_GenericNamePassesNameGate ==
  Answered =>
    \A r \in 1..Len(scoredLog) :
      IsGenericRequest(Devices[r]) =>
        /\ \A c \in 1..Len(scoredLog[r].candidates) :
             OtherGatesPass(scoredLog[r].candidates[c].ev, Inputs.cfg)
               => scoredLog[r].candidates[c].score # Rejected
        /\ /\ OnlyName(Devices[r])
           /\ \A c \in 1..Len(scoredLog[r].candidates) :
                ~Truthy(scoredLog[r].candidates[c].ev.device_type.text)
           => AllAccepted(r)

\* a batch with the name threshold configured to 1.0 in which a request
\* carrying only a generic name had several entities accepted with name
\* scores under the threshold, and a generic-name request with a type had a
\* candidate accepted with a name score under the threshold
C11_Witness ==
  /\ Answered
  /\ Threshold(Inputs.cfg, "name", DefaultNameThreshold) > DefaultNameThreshold
  /\ \E r \in 1..Len(scoredLog) :
       /\ IsGenericRequest(Devices[r]) /\ OnlyName(Devices[r])
       /\ Len(out.actions[r].targets) = Len(Entities)
       /\ Len(Entities) >= 2
       /\ \A c \in 1..Len(scoredLog[r].candidates) :
            /\ scoredLog[r].candidates[c].score >= 0
            /\ scoredLog[r].candidates[c].ev.device_name.score
                 < Threshold(Inputs.cfg, "name", DefaultNameThreshold)
  /\ \E r \in 1..Len(scoredLog) :
       /\ IsGenericRequest(Devices[r]) /\ ~OnlyName(Devices[r])
       /\ \E c \in 1..Len(scoredLog[r].candidates) :
            /\ scoredLog[r].candidates[c].score >= 0
            /\ scoredLog[r].candidates[c].ev.device_name.score
                 < Threshold(Inputs.cfg, "name", DefaultNameThreshold)

\* the entities of the batch that request r's pool holds
PoolEntities(r) ==
  {Entities[scoredLog[r].pool[k]] : k \in 1..Len(scoredLog[r].pool)}

\* the suggestion's floor contains the requested floor or is contained by it
\* (as loose_suggestions compares them, lines 424, 443)
FloorRelated(floor, request_floor) ==
  /\ SuggestionNorm(floor) # <<>>
  /\ SuggestionNorm(request_floor) # <<>>
  /\ Overlaps(SuggestionNorm(request_floor), SuggestionNorm(floor))

(***************************************************************************)
(* C12: when a request specifies a floor and no entity of its pool has a   *)
(* floor field populated, its suggestions are the empty list; and every    *)
(* suggestion returned for a request with a floor has floor information    *)
(* that contains or is contained by the requested floor.                   *)
(***************************************************************************)
C12_SuggestionsStayOnFloor ==
  Answered =>
    \A r \in 1..Len(out.actions) :
      LET request_floor == get_primary_field(Devices[r], "floor")
          suggestions   == out.actions[r].suggestions_if_empty
      IN Truthy(request_floor) =>
           /\ (\A e \in PoolEntities(r) : ~Truthy(get_primary_field(e, "floor")))
                => suggestions = <<>>
           /\ \A k \in 1..Len(suggestions) :
                FloorRelated(suggestions[k].floor, request_floor)

(***************************************************************************)
(* Claims about filter_candidates.  They read the request and the entity   *)
(* list it was given (payload) and the pool it returned (call.res).        *)
(***************************************************************************)
Filtered == call.op = "filter_candidates"
PoolRequest == payload.intent_devices[1]

\* the positions whose entity has the normalized request field inside its
\* own normalized field (lines 268-271, 280-283)
Matching(pool, field) ==
  SelectSeq(pool,
            LAMBDA i : IsSubstr(NormalizeCompute(get_primary_field(PoolRequest, field)),
                                NormalizeCompute(get_primary_field(payload.entities[i], field))))

(***************************************************************************)
(* C13: filter_candidates never returns an empty pool when the entity list *)
(* is non-empty, whatever type, service domain, room and floor the request *)
(* carries; the pool holds entities of the list only.                      *)
(***************************************************************************)
C13_PoolNeverEmpty ==
  Filtered /\ payload.entities # <<>> =>
    /\ call.res # <<>>
    /\ \A k \in 1..Len(call.res) : call.res[k] \in 1..Len(payload.entities)

\* calls in which the type lookup found nothing and the whole list came
\* back, and calls on more than PoolRoomLimit entities whose room (or floor)
\* no entity has, so that the narrowing stage was given up
C13_Witness ==
  /\ Filtered
  /\ Len(call.res) > PoolRoomLimit
  /\ Truthy(PoolRequest.room_name)
  /\ Matching(call.res, "room") = <<>>
  /\ Truthy(PoolRequest.floor_name)
  /\ Matching(call.res, "floor") = <<>>
  /\ Truthy(PoolRequest.device_type)
  /\ Len(call.res) = Len(payload.entities)

(***************************************************************************)
(* Claims about validate_input and main.                                   *)
(***************************************************************************)
\* a field that should hold a list is absent or is not a list
NotAList(field) == ~field.present \/ field.kind # "list"

\* the payload is not a mapping, lacks the device or the entity sequence of
\* its envelope, or holds something that is not a list (or not an object)
\* where the envelope has them
Malformed(p) ==
  \/ p.kinds.payload # "dict"
  \/ /\ p.kinds.payload = "dict"
     /\ IF "success" \in p.keys /\ "data" \in p.keys /\ p.kinds.data = "dict"
           /\ p.data.devices.present
        THEN p.data.devices.kind # "list"
        ELSE IF "intention_data" \in p.keys \/ "entities_data" \in p.keys
        THEN \/ "intention_data" \notin p.keys
             \/ "entities_data" \notin p.keys
             \/ p.kinds.intention_data # "dict" \/ p.kinds.intention_data_data # "dict"
             \/ p.kinds.entities_data # "dict" \/ p.kinds.entities_data_data # "dict"
             \/ NotAList(p.intention_data.devices)
             \/ NotAList(p.entities_data.entities)
        ELSE \/ "intent_devices" \notin p.keys \/ p.kinds.intent_devices # "list"
             \/ "entities" \notin p.keys \/ p.kinds.entities # "list"

\* main printed the message of validate_input and did not call process
RejectedByValidation ==
  /\ ~out.ok
  /\ ~out.traceback
  /\ out.error = validate_input(payload)
  /\ out.error # ""
  /\ scoredLog = <<>>

(***************************************************************************)
(* C14: a payload that is not a mapping, that lacks the device sequence or *)
(* the entity sequence, or whose device or entity field is not a list, is  *)
(* rejected by validate_input with a message; main prints that one error   *)
(* object and does not call process.                                       *)
(***************************************************************************)
C14_MalformedRejected ==
  nbatches > 0 /\ Malformed(payload) => RejectedByValidation

\* the weights in force for the batch (line 394)
WeightsOf(cfg) == IF cfg.weights.present THEN cfg.weights.val ELSE DefaultWeights

\* the weighted composite of an accepted candidate as the specification
\* gives it: a floor or a name that the request leaves out (and a generic
\* name) counts with its neutral substitute
NeutralComposite(dev, ev, W) ==
  W.F * (IF Truthy(get_primary_field(dev, "floor")) THEN ev.floor.score ELSE NeutralFloorScore)
  + W.R * ev.room.score
  + W.N * (IF Truthy(get_primary_field(dev, "name")) /\ ~IsGenericRequest(dev)
           THEN ev.device_name.score ELSE GenericNameScore)
  + W.T * ev.device_type.score

\* a request with a room and a device type and neither floor nor name
RoomAndTypeOnly(dev) ==
  /\ Truthy(get_primary_field(dev, "room")) /\ Truthy(get_primary_field(dev, "type"))
  /\ ~Truthy(get_primary_field(dev, "floor")) /\ ~Truthy(get_primary_field(dev, "name"))

(***************************************************************************)
(* C15: for an accepted candidate a field absent from the request counts   *)
(* in the weighted composite with a neutral substitute, 0.90 for an absent *)
(* floor and 0.85 for an absent name; so a request with only room and type *)
(* whose room and type score 1.0 has, under the default weights, the       *)
(* composite 0.15*0.90 + 0.40*1.0 + 0.30*0.85 + 0.15*1.0, and the          *)
(* two-entity scenario returns exactly one target, light.living_lamp.      *)
(***************************************************************************)
C15_NeutralSubstitutes ==
  Answered =>
    /\ \A r \in 1..Len(scoredLog) : \A c \in 1..Len(scoredLog[r].candidates) :
         LET cand == scoredLog[r].candidates[c]
         IN cand.score # Rejected /\ ~Truthy(get_primary_field(Devices[r], "name"))
              => cand.score = NeutralComposite(Devices[r], cand.ev, WeightsOf(Inputs.cfg))
    /\ \A r \in 1..Len(scoredLog) : \A c \in 1..Len(scoredLog[r].candidates) :
         LET cand == scoredLog[r].candidates[c]
         IN /\ cand.score # Rejected /\ RoomAndTypeOnly(Devices[r])
            /\ ~Inputs.cfg.weights.present
            /\ cand.ev.room.score = 1000 /\ cand.ev.device_type.score = 1000
            => cand.score = DefaultWeightF * NeutralFloorScore + DefaultWeightR * 1000
                            + DefaultWeightN * GenericNameScore + DefaultWeightT * 1000
    /\ payload = Scenario =>
         /\ Len(out.actions[1].targets) = 1
         /\ out.actions[1].targets[1].entity_id
              = <<"l","i","g","h","t",".","l","i","v","i","n","g","_","l","a","m","p">>

\* one directive per target of request r, in rank order
DirectivesOf(r) ==
  [k \in 1..Len(out.actions[r].targets) |->
     [entity_id      |-> out.actions[r].targets[k].entity_id,
      service        |-> Devices[r].service,
      service_data   |-> Devices[r].service_data,
      has_automation |-> Devices[r].has_automation,
      automation     |-> Devices[r].automation]]

\* the directives of requests 1..r, in request order
RECURSIVE DirectivesUpTo(_)
DirectivesUpTo(r) == IF r = 0 THEN <<>> ELSE DirectivesUpTo(r - 1) \o DirectivesOf(r)

RECURSIVE TargetCountUpTo(_)
TargetCountUpTo(r) ==
  IF r = 0 THEN 0 ELSE TargetCountUpTo(r - 1) + Len(out.actions[r].targets)

(***************************************************************************)
(* C16: matched_devices is the concatenation, in request order and then    *)
(* rank order, of one directive (entity id, the request's service and      *)
(* service payload) per target of every request; its length is the sum of  *)
(* the lengths of the targets lists, and a request without targets adds    *)
(* nothing.                                                                *)
(***************************************************************************)
C16_MatchedDevicesFlattened ==
  Answered =>
    /\ out.matched_devices = DirectivesUpTo(Len(out.actions))
    /\ Len(out.matched_devices) = TargetCountUpTo(Len(out.actions))

\* a batch in which a request with two targets and a service is followed by
\* a request with one target and no service, and another request got
\* suggestions and no target
C16_Witness ==
  /\ Answered
  /\ \E r, q \in 1..Len(out.actions) :
       /\ r < q
       /\ Len(out.actions[r].targets) = 2
       /\ Truthy(Devices[r].service)
       /\ Len(out.actions[q].targets) = 1
       /\ ~Truthy(Devices[q].service)
       /\ out.actions[r].targets[1].entity_id # out.actions[r].targets[2].entity_id
  /\ \E r \in 1..Len(out.actions) :
       out.actions[r].targets = <<>> /\ out.actions[r].suggestions_if_empty # <<>>
  /\ Len(out.matched_devices) >= 4

(***************************************************************************)
(* C17: in daemon mode every non-blank input line makes the loop print     *)
(* exactly one JSON line (a result or an error object) and go on reading:  *)
(* invalid JSON, a failed validation or an exception in process never ends *)
(* the loop, which ends only at the end of the input or on an interrupt.   *)
(***************************************************************************)
C17_OneLineOutPerLineIn ==
  /\ loop.line \in {"invalid", "deep", "json"}
       => loop.printed = 1 /\ loop.state = "reading"
  /\ loop.line = "json" => (out.ok \/ out.error # "")
  /\ loop.state # "reading" => loop.line \in {"eof", "interrupt"}

\* the room threshold in force: the configured thresholds.room when the
\* payload supplies one, else the strict 0.98
RoomThresholdOf(cfg) == Threshold(cfg, "room", RoomPassScore)

\* the evidence of a candidate passes the floor, type and name gates
GatesBesideRoomPass(dev, ev, cfg) ==
  /\ Truthy(ev.floor.text) => ev.floor.score >= Threshold(cfg, "floor", DefaultFloorThreshold)
  /\ Truthy(ev.device_type.text)
       => ev.device_type.score >= Threshold(cfg, "type", DefaultTypeThreshold)
  /\ (Truthy(ev.device_name.text) /\ ~IsGenericRequest(dev))
       => ev.device_name.score >= Threshold(cfg, "name", DefaultNameThreshold)

(***************************************************************************)
(* C18: when a request names a room, the room gate passes exactly when the *)
(* room score is at least the room threshold, which is the configured      *)
(* thresholds.room when the payload supplies one: a candidate that passes  *)
(* the other gates is accepted if and only if its room score reaches that  *)
(* threshold.                                                              *)
(***************************************************************************)
C18_RoomThresholdConfigurable ==
  Answered =>
    \A r \in 1..Len(scoredLog) : \A c \in 1..Len(scoredLog[r].candidates) :
      LET cand == scoredLog[r].candidates[c]
      IN Truthy(cand.ev.room.text) /\ GatesBesideRoomPass(Devices[r], cand.ev, Inputs.cfg)
           => (cand.score # Rejected <=> cand.ev.room.score >= RoomThresholdOf(Inputs.cfg))

\* target k of request r is an entity of another domain than the request's
\* service
DomainMismatch(r, k) ==
  /\ Truthy(DomainOf(Devices[r].service))
  /\ DomainOf(out.actions[r].targets[k].entity_id) # DomainOf(Devices[r].service)

(***************************************************************************)
(* C19: when the domain of a request's service differs from the domain of  *)
(* an entity that was scored and accepted, the mismatch is recorded as a   *)
(* warning in the warnings of that request's result (and the entity stays  *)
(* accepted: it is among the targets).                                     *)
(***************************************************************************)
C19_DomainMismatchWarned ==
  Answered =>
    \A r \in 1..Len(out.actions) : \A k \in 1..Len(out.actions[r].targets) :
      DomainMismatch(r, k) => out.actions[r].warnings # <<>>

\* the half of the statement the engine keeps: every candidate of a request
\* with a service is scored whatever its domain, and the accepted ones of
\* another domain are targets like any other
C19_MismatchNeverRejects ==
  Answered =>
    \A r \in 1..Len(scoredLog) :
      /\ Len(scoredLog[r].candidates) = Len(scoredLog[r].pool)
      /\ \A c \in 1..Len(scoredLog[r].candidates) :
           LET cand == scoredLog[r].candidates[c]
           IN GatesBesideRoomPass(Devices[r], cand.ev, Inputs.cfg)
                /\ (Truthy(cand.ev.room.text) => cand.ev.room.score >= RoomPassScore)
                => cand.score # Rejected

\* the exact-match bonuses of the specification's scoring rule
ExactScore == 980
RoomExactBonus == 10000
NameExactBonus == 5000
FloorExactBonus == 3000
DomainBonus == 3000

\* the weighted sum of an accepted candidate without any bonus, as the
\* engine forms it (lines 394-403)
WeightedSum(dev, ev, W) ==
  W.F * (IF Truthy(get_primary_field(dev, "floor")) THEN ev.floor.score ELSE NeutralFloorScore)
  + W.R * ev.room.score
  + W.N * (IF IsGenericRequest(dev) THEN GenericNameScore ELSE ev.device_name.score)
  + W.T * ev.device_type.score

\* the exact-match bonuses a candidate is entitled to
ExactBonuses(dev, e, ev) ==
  (IF Truthy(get_primary_field(dev, "room")) /\ ev.room.score >= ExactScore
   THEN RoomExactBonus ELSE 0)
  + (IF Truthy(get_primary_field(dev, "name")) /\ ~IsGenericRequest(dev)
        /\ ev.device_name.score >= ExactScore
     THEN NameExactBonus ELSE 0)
  + (IF Truthy(get_primary_field(dev, "floor")) /\ ev.floor.score >= ExactScore
     THEN FloorExactBonus ELSE 0)
  + (IF Truthy(DomainOf(dev.service)) /\ DomainOf(dev.service) = DomainOf(e.entity_id)
     THEN DomainBonus ELSE 0)

(***************************************************************************)
(* C20: the composite of an accepted candidate includes, on top of the     *)
(* weighted sum, +0.10 when the room score is at least 0.98, +0.05 when    *)
(* the name score is at least 0.98, +0.03 when the floor score is at least *)
(* 0.98 and +0.03 when the domain of the request's service is the entity's *)
(* domain: it is never below the weighted sum plus these bonuses.          *)
(***************************************************************************)
C20_ExactMatchBonuses ==
  Answered =>
    \A r \in 1..Len(scoredLog) : \A c \in 1..Len(scoredLog[r].candidates) :
      LET cand == scoredLog[r].candidates[c]
      IN cand.score # Rejected
           => cand.score >= WeightedSum(Devices[r], cand.ev, WeightsOf(Inputs.cfg))
                            + ExactBonuses(Devices[r], Entities[cand.idx], cand.ev)

\* what the engine's composite is: the weighted sum, plus the location
\* bonus or nothing
C20_CompositeWithoutExactBonuses ==
  Answered =>
    \A r \in 1..Len(scoredLog) : \A c \in 1..Len(scoredLog[r].candidates) :
      LET cand == scoredLog[r].candidates[c]
      IN cand.score # Rejected
           => cand.score - WeightedSum(Devices[r], cand.ev, WeightsOf(Inputs.cfg))
                \in {0, LocationBonus}

\* the place of entity idx in the candidate pool of request r
PoolPlace(r, idx) ==
  CHOOSE c \in 1..Len(scoredLog[r].pool) :
    /\ scoredLog[r].pool[c] = idx
    /\ \A d \in 1..(c - 1) : scoredLog[r].pool[d] # idx

(***************************************************************************)
(* C21: ranking is stable.  Two accepted candidates of one request with    *)
(* equal composite score appear in targets in the order they have in the   *)
(* candidate pool, although the sort is descending.                        *)
(***************************************************************************)
C21_RankingStable ==
  Answered =>
    \A r \in 1..Len(scoredLog) : \A k, l \in 1..Len(scoredLog[r].top) :
      k < l /\ scoredLog[r].top[k].score = scoredLog[r].top[l].score
        => /\ PoolPlace(r, scoredLog[r].top[k].idx) <= PoolPlace(r, scoredLog[r].top[l].idx)
           /\ out.actions[r].targets[k].entity_id = Entities[scoredLog[r].top[k].idx].entity_id
           /\ out.actions[r].targets[l].entity_id = Entities[scoredLog[r].top[l].idx].entity_id

\* a request answered with two different entities of equal composite score
C21_Witness ==
  /\ Answered
  /\ \E r \in 1..Len(scoredLog) : \E k, l \in 1..Len(scoredLog[r].top) :
       /\ k < l
       /\ scoredLog[r].top[k].score = scoredLog[r].top[l].score
       /\ PoolPlace(r, scoredLog[r].top[k].idx) < PoolPlace(r, scoredLog[r].top[l].idx)
       /\ out.actions[r].targets[k].entity_id # out.actions[r].targets[l].entity_id

\* the normalized non-empty forms of the candidates given to the call
NormalizedCandidates ==
  {NormalizeCompute(call.cands[i]) : i \in {j \in 1..Len(call.cands) : Truthy(call.cands[j])}}
    \ {<<>>}

\* the greatest n-gram cosine of q and a member of cs, 0 when no text of the
\* corpus has an n-gram (the vector space cannot be built)
BestCosine(q, cs) ==
  IF cs = {} THEN 0
  ELSE LET best == CHOOSE c \in cs : \A d \in cs : Cosine(q, c) >= Cosine(q, d)
       IN Cosine(q, best)

\* which rule of field_similarity applies to the call: the first of
\* "empty", "equal", "contains", "ngram"
RuleOf(q, cs) ==
  IF q = <<>> \/ cs = {} THEN "empty"
  ELSE IF q \in cs THEN "equal"
  ELSE IF \E c \in cs : IsSubstr(q, c) \/ IsSubstr(c, q) THEN "contains"
  ELSE "ngram"

(***************************************************************************)
(* C22: field_similarity applies its rules in order and the first          *)
(* applicable one wins: 0.0 when the query is absent or normalizes to the  *)
(* empty string or no candidate has a non-empty normalized form; otherwise *)
(* 1.0 when the normalized query equals a normalized candidate; otherwise  *)
(* exactly 0.95 when one contains the other; only otherwise the n-gram     *)
(* similarity, which is 0.0 and no exception when the vector space cannot  *)
(* be built.  Stated for string queries and candidates, in every cache     *)
(* state.                                                                  *)
(***************************************************************************)
C22_RulesInOrder ==
  (/\ call.op = "field_similarity"
   /\ IsStr(call.arg)
   /\ \A i \in 1..Len(call.cands) : IsStr(call.cands[i]))
  => /\ ~call.raised
     /\ call.res = CASE RuleOf(NormalizeCompute(call.arg), NormalizedCandidates) = "empty" -> 0
                     [] RuleOf(NormalizeCompute(call.arg), NormalizedCandidates) = "equal" -> 1000
                     [] RuleOf(NormalizeCompute(call.arg), NormalizedCandidates) = "contains" -> 950
                     [] OTHER -> BestCosine(NormalizeCompute(call.arg), NormalizedCandidates)

\* a call answered 0.95: the query is not in normalized form, it differs
\* from every normalized candidate and is contained in one, and their n-gram
\* similarity is another value
C22_Witness ==
  /\ call.op = "field_similarity"
  /\ IsStr(call.arg)
  /\ RuleOf(NormalizeCompute(call.arg), NormalizedCandidates) = "contains"
  /\ BestCosine(NormalizeCompute(call.arg), NormalizedCandidates) \notin {0, 950, 1000}
  /\ \E i \in 1..Len(call.cands) : ~Truthy(call.cands[i])
  /\ call.res = 950

\* a call of the n-gram rule for which no vector space can be built
C22_NoVectorSpace ==
  /\ call.op = "field_similarity"
  /\ RuleOf(NormalizeCompute(call.arg), NormalizedCandidates) = "ngram"
  /\ Grams(NormalizeCompute(call.arg)) = {}
  /\ \A c \in NormalizedCandidates : Grams(c) = {}
  /\ call.res = 0 /\ ~call.raised

\* the table whose index was built, and the index
AliasTable == payload.aliases.device_types
AliasIndex == aliasIndices.device_types
IndexBuilt == call.op \in {"build_alias_reverse_index", "expand_alias_fast"}

\* the normalized names listed under entry i of the table: its canonical
\* identifier and its aliases
NamesUnder(i) ==
  {NormalizeCompute(AliasTable[i].canonical)}
  \cup {NormalizeCompute(AliasTable[i].aliases[j]) : j \in 1..Len(AliasTable[i].aliases)}

\* the entries that list the non-empty name under a canonical identifier
\* with a non-empty normalized form
ListedUnder(name) ==
  {i \in 1..Len(AliasTable) :
     NormalizeCompute(AliasTable[i].canonical) # <<>> /\ name \in NamesUnder(i)}

LastOf(S) == CHOOSE i \in S : \A j \in S : j <= i

(***************************************************************************)
(* C23 as stated: the index maps the normalized form of every canonical    *)
(* identifier of the table, and of every alias listed under it, to the     *)
(* normalized form of that same canonical identifier, also when an alias   *)
(* is listed under two canonical identifiers or coincides with another     *)
(* canonical identifier, in every iteration order.                         *)
(***************************************************************************)
C23_EveryNameToItsCanonical ==
  IndexBuilt =>
    \A i \in 1..Len(AliasTable) : \A name \in NamesUnder(i) :
      /\ IndexHas(AliasIndex, name)
      /\ IndexGet(AliasIndex, name) = NormalizeCompute(AliasTable[i].canonical)

(***************************************************************************)
(* C23 amended: the index maps every non-empty normalized name listed      *)
(* under a canonical identifier whose normalized form is non-empty to the  *)
(* normalized form of the last canonical identifier, in the iteration      *)
(* order of the table, that lists it: to that same canonical identifier    *)
(* when no other one lists the name.                                       *)
(***************************************************************************)
C23_LastListingWins ==
  IndexBuilt =>
    \A i \in 1..Len(AliasTable) : \A name \in NamesUnder(i) \ {<<>>} :
      NormalizeCompute(AliasTable[i].canonical) # <<>>
        => /\ IndexHas(AliasIndex, name)
           /\ IndexGet(AliasIndex, name)
                = NormalizeCompute(AliasTable[LastOf(ListedUnder(name))].canonical)

\* the index of a table in which a name is listed under two canonical
\* identifiers with different normalized forms and a name is listed under one
\* only
C23_Witness ==
  /\ IndexBuilt
  /\ \E i, j \in 1..Len(AliasTable) : \E name \in (NamesUnder(i) \cap NamesUnder(j)) \ {<<>>} :
       /\ i < j
       /\ ListedUnder(name) = {i, j}
       /\ NormalizeCompute(AliasTable[i].canonical) # NormalizeCompute(AliasTable[j].canonical)
       /\ IndexGet(AliasIndex, name) = NormalizeCompute(AliasTable[j].canonical)
  /\ \E i \in 1..Len(AliasTable) : \E name \in NamesUnder(i) \ {<<>>} :
       /\ ListedUnder(name) = {i}
       /\ IndexGet(AliasIndex, name) = NormalizeCompute(AliasTable[i].canonical)

\* the type-filtered pool of the call (lines 239-261)
TypeFiltered ==
  TypePool(Globals, PoolRequest, payload.entities,
           build_type_index(Globals, payload.entities).v).v

\* entity i has a normalized field that contains the normalized requested
\* one, or that is not empty and is contained by it
ContainsOrContained(i, field) ==
  LET q == NormalizeCompute(get_primary_field(PoolRequest, field))
      n == NormalizeCompute(get_primary_field(payload.entities[i], field))
  IN IsSubstr(q, n) \/ (n # <<>> /\ IsSubstr(n, q))

\* the entities of the pool a narrowing stage is to keep
Related(pool, field) == SelectSeq(pool, LAMBDA i : ContainsOrContained(i, field))

\* a narrowing stage as stated: attempted above the limit when the request
\* has the field, keeping the related entities unless there is none
StagedNarrow(pool, field, limit) ==
  IF Len(pool) > limit /\ Truthy(get_primary_field(PoolRequest, field))
     /\ Related(pool, field) # <<>>
  THEN Related(pool, field)
  ELSE pool

(***************************************************************************)
(* C24: filter_candidates narrows the type-filtered pool by room only when *)
(* it has more than 50 entities, and then by floor only when the pool      *)
(* still has more than 30; a stage keeps exactly the entities whose        *)
(* normalized room (floor) contains or is contained by the normalized      *)
(* requested one (all of them when there is none, as the pool is never     *)
(* narrowed to nothing); the returned pool is a sub-sequence of the entity *)
(* list.                                                                   *)
(***************************************************************************)
C24_StagedNarrowing ==
  Filtered =>
    /\ call.res = StagedNarrow(StagedNarrow(TypeFiltered, "room", PoolRoomLimit),
                               "floor", PoolFloorLimit)
    /\ \A k \in 1..Len(call.res) : call.res[k] \in 1..Len(payload.entities)
    /\ \A k, l \in 1..Len(call.res) : k < l => call.res[k] < call.res[l]

\* what the stages of the engine keep: the entities whose normalized field
\* contains the normalized requested one, in one direction only
OneWayNarrow(pool, field, limit) ==
  IF Len(pool) > limit /\ Truthy(get_primary_field(PoolRequest, field))
     /\ Matching(pool, field) # <<>>
  THEN Matching(pool, field)
  ELSE pool

C24_OneWayNarrowing ==
  Filtered =>
    /\ call.res = OneWayNarrow(OneWayNarrow(TypeFiltered, "room", PoolRoomLimit),
                               "floor", PoolFloorLimit)
    /\ \A k, l \in 1..Len(call.res) : k < l => call.res[k] < call.res[l]

\* the keys of the directly used cache, oldest entry first
CachedKeys == [i \in 1..Len(lru.cache) |-> lru.cache[i].k]

Smaller(a, b) == IF a <= b THEN a ELSE b

\* the n most recently used keys, in the order of their last use
MostRecent(used, n) == SubSeq(used, Len(used) - n + 1, Len(used))

CacheUsed == call.op \in {"get", "set"}

(***************************************************************************)
(* C25: LRUCache evicts the least recently used key.  After every get and  *)
(* set the cache holds the maxsize keys whose last get-hit or set is the   *)
(* most recent (all used keys while they are fewer), so the entry a set    *)
(* removes is the one used longest ago; a set of a new key removes at most *)
(* one entry and a set of an existing key none; a get that hits and a set  *)
(* make their key the most recent one, and for maxsize >= 1 the key just   *)
(* set is in the cache.                                                    *)
(***************************************************************************)
C25_EvictsLeastRecentlyUsed ==
  CacheUsed =>
    /\ CachedKeys = MostRecent(call.used, Smaller(lru.maxsize, Len(call.used)))
    /\ (call.op = "set" /\ call.hit) => Len(lru.cache) = call.size
    /\ (call.op = "set" /\ ~call.hit) => Len(lru.cache) = Smaller(call.size + 1, lru.maxsize)
    /\ call.op = "get" => Len(lru.cache) = call.size
    /\ ((call.op = "set" \/ call.hit) /\ lru.maxsize >= 1)
         => /\ lru.cache # <<>>
            /\ CachedKeys[Len(CachedKeys)] = call.key

\* a set of a new key on a full cache of two or more entries has evicted
\* the key used longest ago, and the cache holds a greater key before a
\* smaller one
C25_Witness ==
  /\ call.op = "set" /\ ~call.hit
  /\ lru.maxsize >= 2
  /\ call.size = lru.maxsize
  /\ Len(call.used) > lru.maxsize
  /\ \A i \in 1..Len(CachedKeys) : CachedKeys[i] # call.used[Len(call.used) - lru.maxsize]
  /\ CachedKeys[1] > CachedKeys[2]

\* a batch was answered for a payload that validate_input accepts and whose
\* requests name their devices with strings
ValidatedTyped ==
  /\ nbatches > 0
  /\ validate_input(payload) = ""
  /\ ExtractInputs(payload).fault = ""
  /\ \A r \in 1..Len(Devices) : IsStr(Devices[r].device_name)

\* the weights override names all four fields, or is absent
FullWeights ==
  Inputs.cfg.weights.present => {"F", "R", "N", "T"} \subseteq Inputs.cfg.weights.keys

(***************************************************************************)
(* C26: process completes without raising for every payload that passes    *)
(* validate_input and whose config overrides are well-typed mappings, also *)
(* when the weights override names only some of F, R, N, T or the          *)
(* thresholds override names only some fields.                             *)
(***************************************************************************)
C26_ProcessNeverRaises ==
  ValidatedTyped => out.ok

\* what holds of the engine: no exception when the weights override is
\* absent or complete, whatever the thresholds override names
C26_RaisesOnlyOnPartialWeights ==
  (ValidatedTyped /\ FullWeights) => out.ok

\* expand_alias_fast(value, 'device_types') on the index in force
Resolve(value) == expand_alias_fast(Globals, value, "device_types").v

\* a value with a non-empty normalized form was resolved
Resolved ==
  /\ call.op = "expand_alias_fast"
  /\ NormalizeCompute(call.arg) # <<>>

\* no name of the table is listed under two canonical identifiers
ListedOnce ==
  \A i \in 1..Len(AliasTable) : \A name \in NamesUnder(i) \ {<<>>} :
    \A j \in ListedUnder(name) :
      NormalizeCompute(AliasTable[j].canonical) = NormalizeCompute(AliasTable[i].canonical)

(***************************************************************************)
(* C27: alias resolution is idempotent and never fails.  On every index    *)
(* built by build_alias_reverse_index, expand_alias_fast(v) returns a      *)
(* single normalized token r, the canonical form when v is known and       *)
(* normalize(v) otherwise; resolving r again returns r; and every          *)
(* canonical identifier of the table resolves to itself.                   *)
(***************************************************************************)
C27_ResolutionIdempotent ==
  /\ Resolved =>
       /\ ~call.raised
       /\ Len(call.res) = 1
       /\ NormalizeCompute(call.res[1]) = call.res[1]
       /\ call.res[1] = IF IndexHas(AliasIndex, NormalizeCompute(call.arg))
                        THEN IndexGet(AliasIndex, NormalizeCompute(call.arg))
                        ELSE NormalizeCompute(call.arg)
       /\ Resolve(call.res[1]) = call.res
  /\ IndexBuilt =>
       \A i \in 1..Len(AliasTable) :
         NormalizeCompute(AliasTable[i].canonical) # <<>>
           => Resolve(AliasTable[i].canonical) = <<NormalizeCompute(AliasTable[i].canonical)>>

\* what holds of the engine: the same, for the tables that list no name
\* under two canonical identifiers; for the others a single normalized token
\* is returned all the same
C27_IdempotentWhenListedOnce ==
  /\ Resolved =>
       /\ ~call.raised
       /\ Len(call.res) = 1
       /\ NormalizeCompute(call.res[1]) = call.res[1]
       /\ call.res[1] = IF IndexHas(AliasIndex, NormalizeCompute(call.arg))
                        THEN IndexGet(AliasIndex, NormalizeCompute(call.arg))
                        ELSE NormalizeCompute(call.arg)
       /\ ListedOnce => Resolve(call.res[1]) = call.res
  /\ (IndexBuilt /\ ListedOnce) =>
       \A i \in 1..Len(AliasTable) :
         NormalizeCompute(AliasTable[i].canonical) # <<>>
           => Resolve(AliasTable[i].canonical) = <<NormalizeCompute(AliasTable[i].canonical)>>

\* the device requests and the entities in the fields validate_input checks
\* (lines 521-565): the wrapped ones when the payload has a wrapper key, else
\* the flat ones
CheckedFields ==
  IF "intention_data" \in payload.keys \/ "entities_data" \in payload.keys
  THEN [intent_devices |-> payload.intention_data.devices.val,
        entities       |-> payload.entities_data.entities.val]
  ELSE [intent_devices |-> payload.intent_devices,
        entities       |-> payload.entities]

\* a batch was answered for a payload that validate_input accepts
Validated == nbatches > 0 /\ validate_input(payload) = ""

\* the payload is (also) an intent object: it has the keys success and data
IntentObjectShape == "success" \in payload.keys /\ "data" \in payload.keys

(***************************************************************************)
(* C28: validation and processing agree on the envelope.  For every        *)
(* payload that validate_input accepts, process takes its device requests  *)
(* and its entities from the fields that validate_input checked, so an     *)
(* accepted payload with a non-empty entity list is never matched against  *)
(* an empty entity pool.                                                   *)
(***************************************************************************)
C28_SameEnvelope ==
  Validated =>
    /\ Inputs.intent_devices = CheckedFields.intent_devices
    /\ Inputs.entities = CheckedFields.entities
    /\ (out.ok /\ CheckedFields.entities # <<>>)
         => \A r \in 1..Len(scoredLog) : scoredLog[r].pool # <<>>

\* what holds of the engine: the same for the payloads that are not intent
\* objects
C28_SameEnvelopeUnlessIntentObject ==
  (Validated /\ ~IntentObjectShape) =>
    /\ Inputs.intent_devices = CheckedFields.intent_devices
    /\ Inputs.entities = CheckedFields.entities
    /\ (out.ok /\ CheckedFields.entities # <<>>)
         => \A r \in 1..Len(scoredLog) : scoredLog[r].pool # <<>>
====
